---- MODULE Spec2Model ----
(***************************************************************************)
(* Credential acquisition orchestrator of bayan-get-auth                   *)
(* (src/authService.js, getAuth / invalidateAuthCache) and the OTP         *)
(* correlator (src/otpUtils.js, fetchOtpFromEmail).                        *)
(*                                                                         *)
(* JavaScript runs every function to its next `await`; each action below   *)
(* is one such run-to-completion segment.  The browser-driving steps and   *)
(* the mail transport are external: their results are drawn with \E.       *)
(***************************************************************************)
EXTENDS Integers, Sequences, FiniteSets, TLC

\* ------------------------------------------------------------------ bounds
\* number of external invalidateAuthCache() calls in one run
MaxInvalidate == 1
\* the wall clock advances in ticks of TickMs, MaxTicks times at most
MaxTicks == 2
\* LOGIN_MAX_ATTEMPTS as configured in the runs explored
MAX_ATTEMPTS == 2

\* messages the mailbox holds at most
MaxMsgs == 2
\* the clock of the OTP wait advances in ticks of OtpTickMs, MaxOtpTicks times
MaxOtpTicks == 2
\* the retries argument of fetchOtpFromEmail in the runs explored
MaxPolls == 2

\* ------------------------------------------------------- program constants
\* isCachedAuthValid's default safety skew
skewMs == 60000
\* fallback TTL when AUTH_CACHE_TTL_MS is unset
DEFAULT_AUTH_CACHE_TTL_MS == 3600000
\* `let inFlightAuthPromise = null`: 0 is the null marker, an acquisition is
\* named by the caller that started it
NoPromise == 0
\* a null number (tryGetJwtExpMs returning null)
NullMs == 0 - 1

TickMs == skewMs
StartMs == TickMs

\* the getAuth() calls of one run, one per caller, named in calling order;
\* an acquisition is named by the caller that started it
Callers == 1 .. 2

\* ------------------------------------------------------------------ values
\* access tokens: none, an opaque string, a JWT whose payload carries exp
\* (seconds).
NoToken == [kind |-> "null", exp |-> 0]
OpaqueToken == [kind |-> "opaque", exp |-> 0]
JwtToken(e) == [kind |-> "jwt", exp |-> e]
\* exp claims (seconds) of the JWTs the login surface hands out in the runs
JwtExps == {(StartMs + 2 * TickMs) \div 1000}
\* the tokens a login yields: accessToken stays null when neither the page
\* storage nor a request carried one (lines 808-824)
Tokens == {NoToken, OpaqueToken} \cup {JwtToken(e) : e \in JwtExps}
\* the logins that yield a token (the cache treats a missing token like an
\* opaque one: tryGetJwtExpMs is null for both)
BearerTokens == Tokens \ {NoToken}

\* a credential bundle: `id` names the acquisition that produced it
\* (0: a bundle persisted by an earlier process)
Bundle(i, t) == [id |-> i, accessToken |-> t]
NullAuth == [id |-> -1, accessToken |-> NoToken]

\* errors: every error of the code is a plain Error, some with a code
NoErr == [name |-> "none", code |-> "none", attempt |-> 0]
Err(c, k) == [name |-> "Error", code |-> c, attempt |-> k]
\* the error an attempt throws (throwIfServerOops sets err.code); the record
\* carries the index of the attempt that threw it
AttemptErrCodes == {"BAYAN_SERVER_OOPS"}

NoOutcome == [kind |-> "none", bundle |-> NullAuth, err |-> NoErr]
Resolved(b) == [kind |-> "ok", bundle |-> b, err |-> NoErr]
Rejected(e) == [kind |-> "err", bundle |-> NullAuth, err |-> e]

\* AUTH_CACHE_TTL_MS as set in the environment
EnvTtls == {"undefined", "0", "120000"}
\* Number(envTtl) for the settings above
NumberOf(e) == IF e = "120000" THEN 2 * TickMs ELSE 0

VARIABLES
    env,
    now,
    cachedAuth,
    cachedAtMs,
    cacheLoaded,
    inFlightAuthPromise,
    file,
    pc,
    force,
    waits,
    outcome,
    seen,
    acq,
    invCalls,
    mailbox,
    otpNow,
    otpCfg,
    lg,
    baselineOtpMsgId,
    poll,
    otp,
    preBaseline,
    skips,
    trail,
    slept,
    http,
    xText,
    xOpts,
    xOuts,
    itMsg,
    itOut,
    session,
    built,
    upstream,
    pxRes,
    addr,
    wanted,
    accepted

\* the orchestrator's state (src/authService.js)
authVars == <<env, now, cachedAuth, cachedAtMs, cacheLoaded, inFlightAuthPromise,
              file, pc, force, waits, outcome, seen, acq, invCalls>>

\* one login attempt's OTP correlation (src/authService.js 687-710,
\* src/otpUtils.js)
otpVars == <<mailbox, otpNow, otpCfg, lg, baselineOtpMsgId, poll, otp,
             preBaseline, skips, trail, slept>>

\* the /auth requests that made the getAuth() calls (src/server.js)
srvVars == <<http>>

\* the arguments of extractOtp and the results of its calls
\* (src/otpUtils.js lines 1-27, src/unnamed/part_001)
xVars == <<xText, xOpts, xOuts>>

\* one poll iteration's extraction from the message it evaluates
\* (src/otpUtils.js 238-263)
itVars == <<itMsg, itOut>>

\* what a logged-in page yields and the result built from it
\* (src/authService.js 770-840)
resVars == <<session, built>>

\* one /bayan request: what getAuth() and the upstream do for it, and the
\* responses written to res (src/unnamed/part_002 95-236)
proxyVars == <<upstream, pxRes>>

\* the arguments of matchSender and its result (src/otpUtils.js 80-90)
senderVars == <<addr, wanted, accepted>>

vars == <<authVars, otpVars, srvVars, xVars, itVars, resVars, proxyVars, senderVars>>

\* ------------------------------------------------------------- pure helpers
\* tryGetJwtExpMs: the exp claim in ms, or null when the token is no JWT
tryGetJwtExpMs(token) ==
    IF token.kind = "jwt" THEN token.exp * 1000 ELSE NullMs

\* JavaScript truthiness of a number-or-null
Truthy(n) == n # NullMs /\ n # 0

\* getAuth: const ttlMs = envTtl === undefined || envTtl === '' ? DEFAULT : Number(envTtl) || 0
ttlMs ==
    IF env.ttl = "undefined" THEN DEFAULT_AUTH_CACHE_TTL_MS ELSE NumberOf(env.ttl)

\* isCachedAuthValid({ ttlMs }) evaluated when Date.now() is t
isCachedAuthValid(ttl, t) ==
    IF cachedAuth = NullAuth THEN FALSE
    ELSE LET expMs == tryGetJwtExpMs(cachedAuth.accessToken) IN
         IF Truthy(expMs) THEN t < expMs - skewMs
         ELSE IF ttl > 0 /\ cachedAtMs > 0 THEN t - cachedAtMs < ttl
         ELSE FALSE

\* the cache file: ok = FALSE is a missing or corrupt file
NoFile == [ok |-> FALSE, cachedAuth |-> NullAuth, cachedAtMs |-> 0]
FileRecord(b, at) == [ok |-> TRUE, cachedAuth |-> b, cachedAtMs |-> at]

\* an acquisition (the async IIFE of getAuth): `write` is the cache record
\* handed to writeFile and not yet written
NoAcq == [st |-> "none", attempt |-> 0, lastErr |-> NoErr, browser |-> FALSE,
          ctx |-> FALSE, write |-> NoFile, out |-> NoOutcome, delay |-> 0]

Running(p) == acq[p].st \in {"launch", "attempt", "backoff", "closing"}
Settled(p) == acq[p].st = "settled"
\* the retry loop (browser login and OTP poll) is executing
InLoginSequence(p) == acq[p].st \in {"attempt", "backoff"}

\* an environment: credentials set or missing, a browser found or not,
\* AUTH_CACHE_TTL_MS, LOGIN_MAX_ATTEMPTS
Env(c, b, t, n) == [creds |-> c, browser |-> b, ttl |-> t, maxAttempts |-> n]

\* the environments explored
Envs ==
    {Env(TRUE, TRUE, t, MAX_ATTEMPTS) : t \in EnvTtls}
    \cup {Env(FALSE, TRUE, "120000", MAX_ATTEMPTS),
          Env(TRUE, FALSE, "120000", MAX_ATTEMPTS)}

\* the clock readings an action may see: time passes between two readings
\* of Date.now(), by whole ticks
Later == {t \in {now, now + TickMs} : t <= StartMs + MaxTicks * TickMs}

\* ------------------------------------------------ the mailbox and one OTP wait
\* a message of the mailbox: its folder, whether matchSender accepts its
\* sender, where extractOtp finds a code in it, its receivedDateTime.
\* A message's id is its position in the mailbox (arrival order).
Folders == {"inbox", "junkemail", "other"}

CodePlaces == {"none", "preview", "body"}

Message(f, m, c, at) == [folder |-> f, match |-> m, code |-> c, at |-> at]

\* the messages that can arrive: one from the wanted sender in any folder
\* with or without a code, or one from somebody else
MessageKinds ==
    {[folder |-> f, match |-> TRUE, code |-> c] : f \in Folders, c \in CodePlaces}
    \cup {[folder |-> "inbox", match |-> FALSE, code |-> "preview"]}

\* null: no message, no baseline, no OTP
NoMsg == 0

NoOtp == [found |-> FALSE, msg |-> NoMsg, tooOld |-> FALSE]

OtpOf(i) == [found |-> TRUE, msg |-> i, tooOld |-> FALSE]

\* no OTP, the iteration having logged 'message too old' (line 268)
TooOld == [found |-> FALSE, msg |-> NoMsg, tooOld |-> TRUE]

MinuteMs == 60 * 1000

OtpTickMs == 2 * MinuteMs

\* the retries argument of fetchOtpFromEmail
retries == otpCfg.retries

\* (mutant) the argument is used as it is
maxRetries_Raw == retries

\* otpUtils.js line 200: Math.min(Math.max(1, Number(retries) || 5), 50)
maxRetries ==
    LET r == IF retries = 0 THEN 5 ELSE retries
        lo == IF r < 1 THEN 1 ELSE r
    IN IF lo > 50 THEN 50 ELSE lo

\* the delayMs argument of fetchOtpFromEmail
delayMs == otpCfg.delayMs

\* otpUtils.js line 201: Math.min(Math.max(500, Number(delayMs) || 2000), 60000)
delay ==
    LET v == IF delayMs = 0 THEN 2000 ELSE delayMs
        lo == IF v < 500 THEN 500 ELSE v
    IN IF lo > 60000 THEN 60000 ELSE lo

\* line 223, the latest message is the baseline:
\* if (attempt < retries) await setTimeout(delayMs)
WaitOnBaseline(k) == IF k < retries THEN delayMs ELSE 0

\* lines 273-276 and 280: if (attempt < maxRetries) await setTimeout(delay)
WaitOnMiss(k) == IF k < maxRetries THEN delay ELSE 0

\* otpUtils.js line 211
maxAge ==
    (IF otpCfg.maxAgeMinutes > 0 THEN otpCfg.maxAgeMinutes ELSE 2) * MinuteMs

\* undefined, for a number
Undef == 0 - 1

\* a JavaScript value given as text: its type and the string String() makes
\* of it, as a sequence of character classes ("d" ASCII digit, "D"
\* Arabic-Indic or Extended Arabic-Indic digit, "w" ASCII letter, "s" a
\* character that is no word character, "k" a letter of an English
\* keyword, "q" a letter of an Arabic keyword)
Value(ty, str) == [type |-> ty, str |-> str]

\* the options argument: not given, null, or an object with minLen and
\* maxLen (Undef when the property is missing)
Options(g, lo, hi) == [given |-> g, minLen |-> lo, maxLen |-> hi]

\* no call of extractOtp is explored
ExtractIdle ==
    /\ xText = Value("undefined", <<>>)
    /\ xOpts = Options("undefined", Undef, Undef)
    /\ xOuts = <<>>

\* the message of a poll iteration as extraction sees it: the texts of its
\* subject, bodyPreview and body, DEBUG_OTP, and whether the fetch of the
\* full body fails
MessageParts(sub, pre, body, dbg, fail) ==
    [subject |-> sub, bodyPreview |-> pre, body |-> body, DEBUG |-> dbg, failBody |-> fail]

\* the outcome of the extraction: the code, the part it came from, and the
\* number of getMessageBodyById calls
Extraction(code, part, n) == [otp |-> code, part |-> part, bodyFetches |-> n]

\* no poll iteration is explored
IterationIdle ==
    /\ itMsg = MessageParts(<<>>, <<>>, <<>>, FALSE, FALSE)
    /\ itOut = <<>>

\* a logged-in page: the cookie header built from its cookies, the token
\* value found in localStorage and in sessionStorage, the last bearer token
\* seen on a request, navigator.userAgent. A string is a number: NullMs is
\* null, 0 the empty string, a positive number a non-empty string
Session(cookie, l, s, b, ua) ==
    [cookieHeader |-> cookie, localStorage |-> l, sessionStorage |-> s,
     lastBearerToken |-> b, userAgent |-> ua]

\* no login result is explored
ResultIdle ==
    /\ session = Session(0, NullMs, NullMs, NullMs, 0)
    /\ built = <<>>

\* an /auth request: timedOut, whether the handler has run past its await,
\* and the responses written to res
NoRequest == [timedOut |-> FALSE, handled |-> FALSE, sent |-> <<>>]

\* what one /bayan request meets: whether getAuth() resolves, the path, and
\* the upstream's answer: fault is "none" when fetch and the reading of the
\* body succeed, otherwise the step that fails and how
Upstream(authOk, print, fault, status, ct, len0, parses) ==
    [authOk |-> authOk, isPrintEndpoint |-> print, fault |-> fault, status |-> status,
     contentType |-> ct, contentLength0 |-> len0, parses |-> parses]

\* no /bayan request is explored
ProxyIdle ==
    /\ upstream = Upstream(TRUE, FALSE, "none", 200, "none", FALSE, FALSE)
    /\ pxRes = <<>>

\* no sender is matched
SenderIdle ==
    /\ addr = <<>>
    /\ wanted = <<>>
    /\ accepted = <<>>

\* no request has been answered or has timed out
HttpIdle == http = [c \in Callers |-> NoRequest]

\* the state of the OTP wait while no login attempt is at its OTP step
OtpIdle ==
    /\ mailbox = <<>>
    /\ otpNow = 0
    /\ otpCfg = [graph |-> TRUE, maxAgeMinutes |-> 0, retries |-> MaxPolls, delayMs |-> 2000]
    /\ lg = "off"
    /\ baselineOtpMsgId = NoMsg
    /\ poll = 0
    /\ otp = NoOtp
    /\ preBaseline = 0
    /\ skips = 0
    /\ trail = <<>>
    /\ slept = 0

\* ---------------------------------------------------------------- Init
Init ==
    /\ env \in Envs
    /\ now = StartMs
    /\ cachedAuth = NullAuth
    /\ cachedAtMs = 0
    /\ cacheLoaded = FALSE
    /\ inFlightAuthPromise = NoPromise
    /\ file \in {NoFile} \cup {FileRecord(Bundle(0, JwtToken(e)), StartMs) : e \in JwtExps}
    /\ pc = [c \in Callers |-> "idle"]
    /\ force = [c \in Callers |-> FALSE]
    /\ waits = [c \in Callers |-> NoPromise]
    /\ outcome = [c \in Callers |-> NoOutcome]
    /\ seen = [c \in Callers |-> NullAuth.id]
    /\ acq = [c \in Callers |-> NoAcq]
    /\ invCalls = 0
    /\ OtpIdle
    /\ HttpIdle
    /\ ExtractIdle
    /\ IterationIdle
    /\ ResultIdle
    /\ ProxyIdle
    /\ SenderIdle

\* ------------------------------------------------------- getAuth, per caller
\* (mutant) the in-flight marker is never consulted
Coalesces_Never(f) == FALSE

\* line 546: if (!forceRefresh && inFlightAuthPromise)
Coalesces(f) == ~f /\ inFlightAuthPromise # NoPromise

\* (mutant) the cache check forgets forceRefresh
ServesCache_IgnoreForce(f, t) == isCachedAuthValid(ttlMs, t)

\* (mutant) the cache is never consulted
ServesCache_Never(f, t) == FALSE

\* line 553: if (!forceRefresh && isCachedAuthValid({ ttlMs }))
ServesCache(f, t) == ~f /\ isCachedAuthValid(ttlMs, t)

\* (mutant) the configuration is not checked before the browser is launched
StartedAcq_NoChecks == [NoAcq EXCEPT !.st = "launch"]

\* the async IIFE up to its first await: the configuration checks, then
\* puppeteer.launch
StartedAcq ==
    IF ~env.creds
    THEN [NoAcq EXCEPT !.st = "settled", !.out = Rejected(Err("MISSING_CREDENTIALS", 0))]
    ELSE IF ~env.browser
    THEN [NoAcq EXCEPT !.st = "settled", !.out = Rejected(Err("NO_BROWSER", 0))]
    ELSE [NoAcq EXCEPT !.st = "launch"]

\* lines 545-559 and 875-876: coalesce, serve the cache, or start an
\* acquisition and await it; t is the reading of Date.now()
Decide(c, f, t) ==
    /\ now' = t
    /\ IF Coalesces(f)
       THEN /\ pc' = [pc EXCEPT ![c] = "await"]
            /\ waits' = [waits EXCEPT ![c] = inFlightAuthPromise]
            /\ UNCHANGED <<outcome, acq, inFlightAuthPromise>>
       ELSE IF ServesCache(f, t)
       THEN /\ pc' = [pc EXCEPT ![c] = "done"]
            /\ outcome' = [outcome EXCEPT ![c] = Resolved(cachedAuth)]
            /\ UNCHANGED <<waits, acq, inFlightAuthPromise>>
       ELSE /\ acq' = [acq EXCEPT ![c] = StartedAcq]
            /\ inFlightAuthPromise' = c
            /\ pc' = [pc EXCEPT ![c] = "awaitOwn"]
            /\ waits' = [waits EXCEPT ![c] = c]
            /\ UNCHANGED outcome

\* lines 526-531: invalidateAuthCache up to its persist
InvalidateMemory ==
    /\ cachedAuth' = NullAuth
    /\ cachedAtMs' = 0
    /\ inFlightAuthPromise' = NoPromise

\* callers call in the order of their names
MayCall(c) == pc[c] = "idle" /\ \A d \in Callers : d < c => pc[d] # "idle"

\* the first getAuth() of the process: loadAuthCacheOnce sets cacheLoaded
\* and awaits readFile
CallFirst(c, f) ==
    /\ MayCall(c)
    /\ ~cacheLoaded
    /\ cacheLoaded' = TRUE
    /\ force' = [force EXCEPT ![c] = f]
    /\ seen' = [seen EXCEPT ![c] = cachedAuth.id]
    /\ pc' = [pc EXCEPT ![c] = "reading"]
    /\ UNCHANGED <<env, now, cachedAuth, cachedAtMs, inFlightAuthPromise, file,
                   waits, outcome, acq, invCalls>>
    /\ UNCHANGED otpVars
    /\ UNCHANGED xVars
    /\ UNCHANGED itVars
    /\ UNCHANGED resVars
    /\ UNCHANGED proxyVars
    /\ UNCHANGED senderVars
    /\ UNCHANGED srvVars

\* loadAuthCacheOnce after readFile: a parseable file overwrites the cache
ReadDone(c) ==
    /\ pc[c] = "reading"
    /\ IF file.ok
       THEN cachedAuth' = file.cachedAuth /\ cachedAtMs' = file.cachedAtMs
       ELSE UNCHANGED <<cachedAuth, cachedAtMs>>
    /\ pc' = [pc EXCEPT ![c] = "loaded"]
    /\ UNCHANGED <<env, now, cacheLoaded, inFlightAuthPromise, file, force,
                   waits, outcome, seen, acq, invCalls>>
    /\ UNCHANGED otpVars
    /\ UNCHANGED xVars
    /\ UNCHANGED itVars
    /\ UNCHANGED resVars
    /\ UNCHANGED proxyVars
    /\ UNCHANGED senderVars
    /\ UNCHANGED srvVars

\* the loading caller resumes after `await loadAuthCacheOnce()`, not forcing
Proceed(c, t) ==
    /\ pc[c] = "loaded"
    /\ ~force[c]
    /\ Decide(c, FALSE, t)
    /\ UNCHANGED <<env, cachedAuth, cachedAtMs, cacheLoaded, file, force,
                   seen, invCalls>>
    /\ UNCHANGED otpVars
    /\ UNCHANGED xVars
    /\ UNCHANGED itVars
    /\ UNCHANGED resVars
    /\ UNCHANGED proxyVars
    /\ UNCHANGED senderVars
    /\ UNCHANGED srvVars

\* the loading caller resumes, forcing: invalidateAuthCache({persist: false})
ForceInvalidate(c) ==
    /\ pc[c] = "loaded"
    /\ force[c]
    /\ InvalidateMemory
    /\ pc' = [pc EXCEPT ![c] = "invalidated"]
    /\ UNCHANGED <<env, now, cacheLoaded, file, force, waits, outcome, seen,
                   acq, invCalls>>
    /\ UNCHANGED otpVars
    /\ UNCHANGED xVars
    /\ UNCHANGED itVars
    /\ UNCHANGED resVars
    /\ UNCHANGED proxyVars
    /\ UNCHANGED senderVars
    /\ UNCHANGED srvVars

\* a later getAuth(): loadAuthCacheOnce returns at once and the call runs
\* on to its decision (only the caller's own continuation runs in between)
Call(c, t) ==
    /\ MayCall(c)
    /\ cacheLoaded
    /\ force' = [force EXCEPT ![c] = FALSE]
    /\ seen' = [seen EXCEPT ![c] = cachedAuth.id]
    /\ Decide(c, FALSE, t)
    /\ UNCHANGED <<env, cachedAuth, cachedAtMs, cacheLoaded, file, invCalls>>
    /\ UNCHANGED otpVars
    /\ UNCHANGED xVars
    /\ UNCHANGED itVars
    /\ UNCHANGED resVars
    /\ UNCHANGED proxyVars
    /\ UNCHANGED senderVars
    /\ UNCHANGED srvVars

\* a later getAuth({forceRefresh: true}): invalidateAuthCache({persist:
\* false}), then await
CallForce(c) ==
    /\ MayCall(c)
    /\ cacheLoaded
    /\ force' = [force EXCEPT ![c] = TRUE]
    /\ seen' = [seen EXCEPT ![c] = cachedAuth.id]
    /\ InvalidateMemory
    /\ pc' = [pc EXCEPT ![c] = "invalidated"]
    /\ UNCHANGED <<env, now, cacheLoaded, file, waits, outcome, acq, invCalls>>
    /\ UNCHANGED otpVars
    /\ UNCHANGED xVars
    /\ UNCHANGED itVars
    /\ UNCHANGED resVars
    /\ UNCHANGED proxyVars
    /\ UNCHANGED senderVars
    /\ UNCHANGED srvVars

\* getAuth resumes after `await invalidateAuthCache(...)`
ProceedForce(c) ==
    /\ pc[c] = "invalidated"
    /\ Decide(c, TRUE, now)
    /\ UNCHANGED <<env, cachedAuth, cachedAtMs, cacheLoaded, file, force,
                   seen, invCalls>>
    /\ UNCHANGED otpVars
    /\ UNCHANGED xVars
    /\ UNCHANGED itVars
    /\ UNCHANGED resVars
    /\ UNCHANGED proxyVars
    /\ UNCHANGED senderVars
    /\ UNCHANGED srvVars

\* (mutant) after awaiting, the caller re-reads the cache
AwaitedOutcome_Cache(p) == Resolved(cachedAuth)

\* what `await inFlightAuthPromise` yields for a settled acquisition
AwaitedOutcome(p) == acq[p].out

\* (mutant) the finally block names an acquisition instead of clearing
FinallyMarker_Some == CHOOSE c \in Callers : TRUE

\* (mutant) the finally block leaves the marker as it is
FinallyMarker_Keep == inFlightAuthPromise

\* line 878: finally { inFlightAuthPromise = null }
FinallyMarker == NoPromise

\* the awaited promise has settled: return or rethrow; the caller that
\* started the acquisition runs its finally
Settle(c) ==
    /\ pc[c] \in {"await", "awaitOwn"}
    /\ Settled(waits[c])
    /\ outcome' = [outcome EXCEPT ![c] = AwaitedOutcome(waits[c])]
    /\ inFlightAuthPromise' =
         IF pc[c] = "awaitOwn" THEN FinallyMarker ELSE inFlightAuthPromise
    /\ pc' = [pc EXCEPT ![c] = "done"]
    /\ UNCHANGED <<env, now, cachedAuth, cachedAtMs, cacheLoaded, file, force,
                   waits, seen, acq, invCalls>>
    /\ UNCHANGED otpVars
    /\ UNCHANGED xVars
    /\ UNCHANGED itVars
    /\ UNCHANGED resVars
    /\ UNCHANGED proxyVars
    /\ UNCHANGED senderVars
    /\ UNCHANGED srvVars

\* invalidateAuthCache() called from outside (persist = true); the write of
\* the emptied record may fail, which is logged and ignored
Invalidate(wrote) ==
    /\ invCalls < MaxInvalidate
    /\ invCalls' = invCalls + 1
    /\ InvalidateMemory
    /\ file' = IF wrote THEN FileRecord(NullAuth, 0) ELSE file
    /\ UNCHANGED <<env, now, cacheLoaded, pc, force, waits, outcome, seen, acq>>
    /\ UNCHANGED otpVars
    /\ UNCHANGED xVars
    /\ UNCHANGED itVars
    /\ UNCHANGED resVars
    /\ UNCHANGED proxyVars
    /\ UNCHANGED senderVars
    /\ UNCHANGED srvVars

\* ------------------------------------------------- the acquisition (the IIFE)
\* puppeteer.launch settles
LaunchDone(p, ok) ==
    /\ acq[p].st = "launch"
    /\ acq' = [acq EXCEPT ![p] =
                 IF ok
                 THEN [@ EXCEPT !.st = "attempt", !.attempt = 1, !.browser = TRUE,
                                !.ctx = TRUE]
                 ELSE [@ EXCEPT !.st = "settled",
                                !.out = Rejected(Err("LAUNCH_FAILED", 0))]]
    /\ UNCHANGED <<env, now, cachedAuth, cachedAtMs, cacheLoaded,
                   inFlightAuthPromise, file, pc, force, waits, outcome, seen,
                   invCalls>>
    /\ UNCHANGED otpVars
    /\ UNCHANGED xVars
    /\ UNCHANGED itVars
    /\ UNCHANGED resVars
    /\ UNCHANGED proxyVars
    /\ UNCHANGED senderVars
    /\ UNCHANGED srvVars

\* (mutant) only a token with an exp claim is cached
Caches_JwtOnly(tok) == Truthy(tryGetJwtExpMs(tok))

\* line 843: if (ttlMs > 0 || tryGetJwtExpMs(result?.accessToken))
Caches(tok) == ttlMs > 0 \/ Truthy(tryGetJwtExpMs(tok))

\* an attempt reaches the post-login state: build the bundle, cache it and
\* hand the record to writeFile; t is the reading of Date.now()
AttemptSucceed(p, tok, t) ==
    /\ acq[p].st = "attempt"
    /\ now' = t
    /\ LET result == Bundle(p, tok) IN
       IF Caches(tok)
       THEN /\ cachedAuth' = result
            /\ cachedAtMs' = t
            /\ acq' = [acq EXCEPT ![p] = [@ EXCEPT !.st = "closing",
                                                   !.ctx = FALSE,
                                                   !.write = FileRecord(result, t),
                                                   !.out = Resolved(result)]]
       ELSE /\ acq' = [acq EXCEPT ![p] = [@ EXCEPT !.st = "closing",
                                                   !.ctx = FALSE,
                                                   !.out = Resolved(result)]]
            /\ UNCHANGED <<cachedAuth, cachedAtMs>>
    /\ UNCHANGED <<env, cacheLoaded, inFlightAuthPromise, file, pc, force,
                   waits, outcome, seen, invCalls>>
    /\ UNCHANGED otpVars
    /\ UNCHANGED xVars
    /\ UNCHANGED itVars
    /\ UNCHANGED resVars
    /\ UNCHANGED proxyVars
    /\ UNCHANGED senderVars
    /\ UNCHANGED srvVars

\* (mutant) only the first error is remembered
NextLastErr_First(prev, e) == IF prev = NoErr THEN e ELSE prev

\* line 851: lastErr = e
NextLastErr(prev, e) == e

\* (mutant) the loop allows one attempt more
MoreAttempts_OneMore(k) == k <= env.maxAttempts

\* (mutant) a failed attempt is always followed by another one
MoreAttempts_Always(k) == TRUE

\* line 854: if (attempt < MAX_ATTEMPTS)
MoreAttempts(k) == k < env.maxAttempts

\* line 855: const backoff = 1500 * attempt
Backoff(k) == 1500 * k

\* (mutant) the catch of an attempt leaves the attempt's context open
CatchClosesContext_Not(open) == open

\* line 853, in the catch of an attempt: await ctx.close().catch(() => {})
CatchClosesContext(open) == FALSE

\* an attempt throws: remember the error, close the context, back off or
\* leave the loop and throw lastErr
AttemptFail(p, code) ==
    /\ acq[p].st = "attempt"
    /\ LET e == NextLastErr(acq[p].lastErr, Err(code, acq[p].attempt)) IN
       acq' = [acq EXCEPT ![p] =
                 IF MoreAttempts(acq[p].attempt)
                 THEN [@ EXCEPT !.st = "backoff", !.lastErr = e,
                                !.ctx = CatchClosesContext(acq[p].ctx),
                                !.delay = Backoff(acq[p].attempt)]
                 ELSE [@ EXCEPT !.st = "closing", !.lastErr = e,
                                !.ctx = CatchClosesContext(acq[p].ctx),
                                !.out = Rejected(e)]]
    /\ UNCHANGED <<env, now, cachedAuth, cachedAtMs, cacheLoaded,
                   inFlightAuthPromise, file, pc, force, waits, outcome, seen,
                   invCalls>>
    /\ UNCHANGED otpVars
    /\ UNCHANGED xVars
    /\ UNCHANGED itVars
    /\ UNCHANGED resVars
    /\ UNCHANGED proxyVars
    /\ UNCHANGED senderVars
    /\ UNCHANGED srvVars

\* the backoff sleep ends: the next attempt creates its context and page
BackoffDone(p) ==
    /\ acq[p].st = "backoff"
    /\ acq' = [acq EXCEPT ![p] = [@ EXCEPT !.st = "attempt", !.attempt = @ + 1,
                                           !.ctx = TRUE, !.delay = 0]]
    /\ UNCHANGED <<env, now, cachedAuth, cachedAtMs, cacheLoaded,
                   inFlightAuthPromise, file, pc, force, waits, outcome, seen,
                   invCalls>>
    /\ UNCHANGED otpVars
    /\ UNCHANGED xVars
    /\ UNCHANGED itVars
    /\ UNCHANGED resVars
    /\ UNCHANGED proxyVars
    /\ UNCHANGED senderVars
    /\ UNCHANGED srvVars

\* lines 619-620: createBrowserContext throws (no context is made), or
\* newPage throws (the context is made and nothing closes it but the
\* browser), outside the try of the attempt: the error leaves the loop at once
ContextFail(p, made) ==
    /\ acq[p].st = "attempt"
    /\ acq' = [acq EXCEPT ![p] =
                 [@ EXCEPT !.st = "closing",
                           !.ctx = made,
                           !.out = Rejected(Err("CONTEXT_FAILED", acq[p].attempt))]]
    /\ UNCHANGED <<env, now, cachedAuth, cachedAtMs, cacheLoaded,
                   inFlightAuthPromise, file, pc, force, waits, outcome, seen,
                   invCalls>>
    /\ UNCHANGED otpVars
    /\ UNCHANGED xVars
    /\ UNCHANGED itVars
    /\ UNCHANGED resVars
    /\ UNCHANGED proxyVars
    /\ UNCHANGED senderVars
    /\ UNCHANGED srvVars

\* (mutant) a failed write of the cache file fails the acquisition
AfterPersist_Fatal(out, wrote) ==
    IF out.kind = "ok" /\ ~wrote THEN Rejected(Err("EIO", 0)) ELSE out

\* lines 416-426: persistAuthCache catches and logs a failed writeFile, so
\* the acquisition's result stays what it was
AfterPersist(out, wrote) == out

\* the tail of the IIFE: persistAuthCache's writeFile settles (a failure is
\* logged and ignored), then finally { browser.close() }, and the promise
\* settles
CloseDone(p, wrote) ==
    /\ acq[p].st = "closing"
    /\ file' = IF wrote /\ acq[p].write.ok THEN acq[p].write ELSE file
    /\ acq' = [acq EXCEPT ![p] = [@ EXCEPT !.st = "settled", !.browser = FALSE,
                                           !.ctx = FALSE,
                                           !.write = NoFile,
                                           !.out = AfterPersist(@, wrote)]]
    /\ UNCHANGED <<env, now, cachedAuth, cachedAtMs, cacheLoaded,
                   inFlightAuthPromise, pc, force, waits, outcome, seen, invCalls>>
    /\ UNCHANGED otpVars
    /\ UNCHANGED xVars
    /\ UNCHANGED itVars
    /\ UNCHANGED resVars
    /\ UNCHANGED proxyVars
    /\ UNCHANGED senderVars
    /\ UNCHANGED srvVars

Next ==
    \/ \E c \in Callers, f \in BOOLEAN : CallFirst(c, f)
    \/ \E c \in Callers : ReadDone(c)
    \/ \E c \in Callers, t \in Later : Proceed(c, t)
    \/ \E c \in Callers : ForceInvalidate(c)
    \/ \E c \in Callers, t \in Later : Call(c, t)
    \/ \E c \in Callers : CallForce(c)
    \/ \E c \in Callers : ProceedForce(c)
    \/ \E c \in Callers : Settle(c)
    \/ \E w \in BOOLEAN : Invalidate(w)
    \/ \E p \in Callers, ok \in BOOLEAN : LaunchDone(p, ok)
    \/ \E p \in Callers, tok \in BearerTokens, t \in Later : AttemptSucceed(p, tok, t)
    \/ \E p \in Callers, code \in AttemptErrCodes : AttemptFail(p, code)
    \/ \E p \in Callers : BackoffDone(p)
    \/ \E p \in Callers, made \in BOOLEAN : ContextFail(p, made)
    \/ \E p \in Callers, w \in BOOLEAN : CloseDone(p, w)

Spec == Init /\ [][Next]_vars

\* --------------------------------------------- one acquisition, one caller
\* LOGIN_MAX_ATTEMPTS in the runs of one acquisition
LoopMaxAttempts == 1 .. (MAX_ATTEMPTS + 1)

\* a process whose cache is loaded and empty; the second caller never calls
LoopInit ==
    /\ env \in {Env(TRUE, TRUE, t, n) : t \in EnvTtls, n \in LoopMaxAttempts}
               \cup {Env(FALSE, TRUE, "120000", MAX_ATTEMPTS),
                     Env(TRUE, FALSE, "120000", MAX_ATTEMPTS)}
    /\ now = StartMs
    /\ cachedAuth = NullAuth
    /\ cachedAtMs = 0
    /\ cacheLoaded = TRUE
    /\ inFlightAuthPromise = NoPromise
    /\ file = NoFile
    /\ pc = [c \in Callers |-> "idle"]
    /\ force = [c \in Callers |-> FALSE]
    /\ waits = [c \in Callers |-> NoPromise]
    /\ outcome = [c \in Callers |-> NoOutcome]
    /\ seen = [c \in Callers |-> NullAuth.id]
    /\ acq = [c \in Callers |-> NoAcq]
    /\ invCalls = 0
    /\ OtpIdle
    /\ HttpIdle
    /\ ExtractIdle
    /\ IterationIdle
    /\ ResultIdle
    /\ ProxyIdle
    /\ SenderIdle

LoopNext ==
    \/ \E t \in Later : Call(1, t)
    \/ Settle(1)
    \/ \E ok \in BOOLEAN : LaunchDone(1, ok)
    \/ \E tok \in Tokens, t \in Later : AttemptSucceed(1, tok, t)
    \/ \E code \in AttemptErrCodes : AttemptFail(1, code)
    \/ BackoffDone(1)
    \/ \E made \in BOOLEAN : ContextFail(1, made)
    \/ \E w \in BOOLEAN : CloseDone(1, w)

LoopSpec == LoopInit /\ [][LoopNext]_vars

\* ------------------------------------------------------- the /auth route
\* a response of the route: its status and the error, code and
\* debugScreenshot fields of its body
ResponseBody(st, msg, code, shot) ==
    [status |-> st, error |-> msg, code |-> code, debugScreenshot |-> shot]

\* the 200 and the 504 of the route
Response(st, code) ==
    ResponseBody(st, IF st = 504 THEN "Auth request timed out" ELSE "none", code, "null")

\* error.message: the model names an error by the place that threw it
MessageOf(e) == e.code

\* (mutant) no error carries a code
CodeOf_Null(e) == "null"

\* error?.code ?? null: throwIfServerOops alone sets err.code
\* (authService.js line 446), every other error is a plain Error
CodeOf(e) == IF e.code = "BAYAN_SERVER_OOPS" THEN "BAYAN_SERVER_OOPS" ELSE "null"

\* error?.debugScreenshot ?? null: the file name set at line 445
ScreenshotOf(e) == IF e.code = "BAYAN_SERVER_OOPS" THEN "bayan-server-oops.png" ELSE "null"

\* server.js lines 71-76
ErrorResponse(e) == ResponseBody(500, MessageOf(e), CodeOf(e), ScreenshotOf(e))

\* res.headersSent
headersSent(c) == http[c].sent # <<>>

\* server.js lines 42-51: the request timer fires while the handler awaits
\* getAuth() (the handler resumes in the microtask in which getAuth settles,
\* before any timer)
Timeout(c) ==
    /\ pc[c] \notin {"idle", "done"}
    /\ ~http[c].timedOut
    /\ http' = [http EXCEPT ![c] =
                  [@ EXCEPT !.timedOut = TRUE,
                            !.sent = IF headersSent(c) THEN @
                                     ELSE Append(@, Response(504, "AUTH_TIMEOUT"))]]
    /\ UNCHANGED authVars
    /\ UNCHANGED otpVars
    /\ UNCHANGED xVars
    /\ UNCHANGED itVars
    /\ UNCHANGED resVars
    /\ UNCHANGED proxyVars
    /\ UNCHANGED senderVars

\* (mutant) the handler answers whatever the timer has done
Answered_Never(c) == FALSE

\* server.js lines 58 and 68: if (timedOut || res.headersSent) return
Answered(c) == http[c].timedOut \/ headersSent(c)

\* server.js lines 56-77: getAuth() has settled and the handler resumes
HandlerResume(c) ==
    /\ pc[c] = "done"
    /\ ~http[c].handled
    /\ http' = [http EXCEPT ![c] =
                  [@ EXCEPT !.handled = TRUE,
                            !.sent = IF Answered(c) THEN @
                                     ELSE IF outcome[c].kind = "ok"
                                     THEN Append(@, Response(200, "none"))
                                     ELSE Append(@, ErrorResponse(outcome[c].err))]]
    /\ UNCHANGED authVars
    /\ UNCHANGED otpVars
    /\ UNCHANGED xVars
    /\ UNCHANGED itVars
    /\ UNCHANGED resVars
    /\ UNCHANGED proxyVars
    /\ UNCHANGED senderVars

\* the process serving /auth requests only: every getAuth() is a plain call
ServerNext ==
    \/ \E c \in Callers : CallFirst(c, FALSE)
    \/ \E c \in Callers : ReadDone(c)
    \/ \E c \in Callers, t \in Later : Proceed(c, t)
    \/ \E c \in Callers, t \in Later : Call(c, t)
    \/ \E c \in Callers : Settle(c)
    \/ \E p \in Callers, ok \in BOOLEAN : LaunchDone(p, ok)
    \/ \E p \in Callers, tok \in Tokens, t \in Later : AttemptSucceed(p, tok, t)
    \/ \E p \in Callers, code \in AttemptErrCodes : AttemptFail(p, code)
    \/ \E p \in Callers : BackoffDone(p)
    \/ \E p \in Callers, made \in BOOLEAN : ContextFail(p, made)
    \/ \E p \in Callers, w \in BOOLEAN : CloseDone(p, w)
    \/ \E c \in Callers : Timeout(c)
    \/ \E c \in Callers : HandlerResume(c)

ServerSpec == Init /\ [][ServerNext]_vars

\* the steps the event loop owes to caller c and to the acquisition c
\* started: file reads, browser steps, sleeps and promise continuations all
\* complete
Progress(c) ==
    \/ ReadDone(c)
    \/ \E t \in Later : Proceed(c, t)
    \/ Settle(c)
    \/ \E ok \in BOOLEAN : LaunchDone(c, ok)
    \/ \E tok \in Tokens, t \in Later : AttemptSucceed(c, tok, t)
    \/ \E code \in AttemptErrCodes : AttemptFail(c, code)
    \/ BackoffDone(c)
    \/ \E made \in BOOLEAN : ContextFail(c, made)
    \/ \E w \in BOOLEAN : CloseDone(c, w)
    \/ HandlerResume(c)

\* the same process, with every pending step eventually taken
ServerLiveSpec == ServerSpec /\ \A c \in Callers : WF_vars(Progress(c))

\* ------------------------------------------- OTP correlation of one attempt
\* the newest message of the folders fs that matchSender accepts: the list
\* comes ordered by receivedDateTime desc and find() takes its first match
\* (lines 122-126)
pickLatestMatch(fs) ==
    LET ms == {i \in 1 .. Len(mailbox) : mailbox[i].folder \in fs /\ mailbox[i].match}
    IN IF ms = {} THEN NoMsg ELSE CHOOSE i \in ms : \A j \in ms : j <= i

\* getLatestMessageFrom (lines 110-149): Inbox, then Junk, then all folders;
\* a query that fails yields an empty list (fetchMessages, lines 104-107)
getLatestMessageFrom(failInbox, failJunk, failAll) ==
    LET inboxMatch == IF failInbox THEN NoMsg ELSE pickLatestMatch({"inbox"})
        junkMatch == IF failJunk THEN NoMsg ELSE pickLatestMatch({"junkemail"})
        allMatch == IF failAll THEN NoMsg ELSE pickLatestMatch(Folders)
    IN IF inboxMatch # NoMsg THEN inboxMatch
       ELSE IF junkMatch # NoMsg THEN junkMatch
       ELSE allMatch

\* getLatestMessageMeta (lines 164-186): the id of the latest message, null
\* when there is none or when the lookup fails
getLatestMessageMeta(failInbox, failJunk, failAll) ==
    IF otpCfg.graph THEN getLatestMessageFrom(failInbox, failJunk, failAll)
    ELSE NoMsg

\* what a login attempt has done for its OTP: kind "baseline" with the id
\* the lookup gave, "submit" with the id handed to fetchOtpFromEmail, "end"
Event(kind, k, id) == [kind |-> kind, attempt |-> k, id |-> id]

\* the attempt of the for loop (authService.js line 617) that is running
AttemptNo == 1 + Cardinality({i \in 1 .. Len(trail) : trail[i].kind = "end"})

\* (mutant) the attempt goes on with the id of the attempt before
DeclaredBaseline_Previous == baselineOtpMsgId

\* authService.js line 688: let baselineOtpMsgId = null, in every attempt
DeclaredBaseline == NoMsg

\* (mutant) the baseline id is never compared
IsBaseline_Never(msg) == FALSE

\* line 221: if (afterMessageId && msg.id === afterMessageId)
IsBaseline(msg) == baselineOtpMsgId # NoMsg /\ msg = baselineOtpMsgId

\* (mutant) the age is tested whatever maxAgeMinutes is
RecentEnough_Always(msg) == otpNow - mailbox[msg].at <= maxAge

\* line 242: maxAgeMinutes <= 0 accepts any age
RecentEnough(msg) ==
    otpCfg.maxAgeMinutes <= 0 \/ otpNow - mailbox[msg].at <= maxAge

\* lines 243-258: the code of the subject or preview, else of the full body
\* when getMessageBodyById returns it
ExtractedOtp(msg, failBody) ==
    IF mailbox[msg].code = "preview" THEN OtpOf(msg)
    ELSE IF mailbox[msg].code = "body" /\ ~failBody THEN OtpOf(msg)
    ELSE NoOtp

\* the mailbox and settings a login attempt can meet at its OTP step
OtpInit ==
    /\ mailbox \in {<<>>} \cup {<<Message(k.folder, k.match, k.code, 0)>> : k \in MessageKinds}
    /\ otpNow \in {0, OtpTickMs}
    /\ otpCfg \in [graph : BOOLEAN, maxAgeMinutes : {0, 2}, retries : {MaxPolls}, delayMs : {2000}]
    /\ lg = "form"
    /\ baselineOtpMsgId = NoMsg
    /\ poll = 0
    /\ otp = NoOtp
    /\ preBaseline = 0
    /\ skips = 0
    /\ trail = <<>>
    /\ slept = 0
    /\ env = Env(TRUE, TRUE, "undefined", MAX_ATTEMPTS)
    /\ now = StartMs
    /\ cachedAuth = NullAuth
    /\ cachedAtMs = 0
    /\ cacheLoaded = TRUE
    /\ inFlightAuthPromise = NoPromise
    /\ file = NoFile
    /\ pc = [c \in Callers |-> "idle"]
    /\ force = [c \in Callers |-> FALSE]
    /\ waits = [c \in Callers |-> NoPromise]
    /\ outcome = [c \in Callers |-> NoOutcome]
    /\ seen = [c \in Callers |-> NullAuth.id]
    /\ acq = [c \in Callers |-> NoAcq]
    /\ invCalls = 0
    /\ HttpIdle
    /\ ExtractIdle
    /\ IterationIdle
    /\ ResultIdle
    /\ ProxyIdle
    /\ SenderIdle

\* a message arrives in the mailbox
Deliver(k) ==
    /\ Len(mailbox) < MaxMsgs
    /\ mailbox' = Append(mailbox, Message(k.folder, k.match, k.code, otpNow))
    /\ UNCHANGED <<otpNow, otpCfg, lg, baselineOtpMsgId, poll, otp, preBaseline, skips, trail, slept>>
    /\ UNCHANGED authVars
    /\ UNCHANGED srvVars
    /\ UNCHANGED xVars
    /\ UNCHANGED itVars
    /\ UNCHANGED resVars
    /\ UNCHANGED proxyVars
    /\ UNCHANGED senderVars

\* time passes
OtpTick ==
    /\ otpNow < MaxOtpTicks * OtpTickMs
    /\ otpNow' = otpNow + OtpTickMs
    /\ UNCHANGED <<mailbox, otpCfg, lg, baselineOtpMsgId, poll, otp, preBaseline, skips, trail, slept>>
    /\ UNCHANGED authVars
    /\ UNCHANGED srvVars
    /\ UNCHANGED xVars
    /\ UNCHANGED itVars
    /\ UNCHANGED resVars
    /\ UNCHANGED proxyVars
    /\ UNCHANGED senderVars

\* authService.js lines 687-696: the baseline is captured before the
\* credentials are submitted
CaptureBaseline(failInbox, failJunk, failAll) ==
    /\ lg = "form"
    /\ LET id == getLatestMessageMeta(failInbox, failJunk, failAll)
       IN /\ baselineOtpMsgId' = IF id # NoMsg THEN id ELSE DeclaredBaseline
          /\ trail' = Append(trail, Event("baseline", AttemptNo, id))
    /\ preBaseline' = Len(mailbox)
    /\ lg' = "baselined"
    /\ UNCHANGED <<mailbox, otpNow, otpCfg, poll, otp, skips, slept>>
    /\ UNCHANGED authVars
    /\ UNCHANGED srvVars
    /\ UNCHANGED xVars
    /\ UNCHANGED itVars
    /\ UNCHANGED resVars
    /\ UNCHANGED proxyVars
    /\ UNCHANGED senderVars

\* authService.js lines 698-706 and otpUtils.js lines 204-213: submit, wait,
\* and enter fetchOtpFromEmail, which returns null without a Graph client
Submit ==
    /\ lg = "baselined"
    /\ IF otpCfg.graph
       THEN lg' = "polling" /\ poll' = 1
       ELSE lg' = "exhausted" /\ poll' = poll
    /\ trail' = Append(trail, Event("submit", AttemptNo, baselineOtpMsgId))
    /\ slept' = 0
    /\ UNCHANGED <<mailbox, otpNow, otpCfg, baselineOtpMsgId, otp, preBaseline, skips>>
    /\ UNCHANGED authVars
    /\ UNCHANGED srvVars
    /\ UNCHANGED xVars
    /\ UNCHANGED itVars
    /\ UNCHANGED resVars
    /\ UNCHANGED proxyVars
    /\ UNCHANGED senderVars

\* one iteration of the loop of fetchOtpFromEmail (lines 213-282)
Poll(failInbox, failJunk, failAll, failBody) ==
    /\ lg = "polling"
    /\ LET msg == getLatestMessageFrom(failInbox, failJunk, failAll)
           skip == msg # NoMsg /\ IsBaseline(msg)
           got == IF msg = NoMsg \/ skip THEN NoOtp
                  ELSE IF RecentEnough(msg) THEN ExtractedOtp(msg, failBody)
                  ELSE TooOld
       IN /\ skips' = IF skip THEN skips + 1 ELSE skips
          /\ otp' = got
          /\ slept' = IF got.found THEN 0
                      ELSE IF skip THEN WaitOnBaseline(poll)
                      ELSE WaitOnMiss(poll)
          /\ IF got.found
             THEN lg' = "found" /\ poll' = poll
             ELSE IF poll < maxRetries
             THEN lg' = "polling" /\ poll' = poll + 1
             ELSE lg' = "exhausted" /\ poll' = poll
    /\ UNCHANGED <<mailbox, otpNow, otpCfg, baselineOtpMsgId, preBaseline, trail>>
    /\ UNCHANGED authVars
    /\ UNCHANGED srvVars
    /\ UNCHANGED xVars
    /\ UNCHANGED itVars
    /\ UNCHANGED resVars
    /\ UNCHANGED proxyVars
    /\ UNCHANGED senderVars

\* authService.js lines 850-862 and 617: the attempt ends, by an OTP that
\* never came or by a later step that failed, and the loop starts the next
\* attempt, which fills the form again
NextAttempt ==
    /\ lg \in {"found", "exhausted"}
    /\ AttemptNo < MAX_ATTEMPTS
    /\ lg' = "form"
    /\ poll' = 0
    /\ otp' = NoOtp
    /\ skips' = 0
    /\ trail' = Append(trail, Event("end", AttemptNo, NoMsg))
    /\ UNCHANGED <<mailbox, otpNow, otpCfg, baselineOtpMsgId, preBaseline, slept>>
    /\ UNCHANGED authVars
    /\ UNCHANGED srvVars
    /\ UNCHANGED xVars
    /\ UNCHANGED itVars
    /\ UNCHANGED resVars
    /\ UNCHANGED proxyVars
    /\ UNCHANGED senderVars

OtpNext ==
    \/ \E k \in MessageKinds : Deliver(k)
    \/ OtpTick
    \/ \E fi \in BOOLEAN, fj \in BOOLEAN, fa \in BOOLEAN : CaptureBaseline(fi, fj, fa)
    \/ Submit
    \/ \E fi \in BOOLEAN, fj \in BOOLEAN, fa \in BOOLEAN, fb \in BOOLEAN : Poll(fi, fj, fa, fb)

OtpSpec == OtpInit /\ [][OtpNext]_vars

\* no getAuth() call is explored: one login attempt is looked at by itself
AuthIdle ==
    /\ env = Env(TRUE, TRUE, "undefined", MAX_ATTEMPTS)
    /\ now = StartMs
    /\ cachedAuth = NullAuth
    /\ cachedAtMs = 0
    /\ cacheLoaded = TRUE
    /\ inFlightAuthPromise = NoPromise
    /\ file = NoFile
    /\ pc = [c \in Callers |-> "idle"]
    /\ force = [c \in Callers |-> FALSE]
    /\ waits = [c \in Callers |-> NoPromise]
    /\ outcome = [c \in Callers |-> NoOutcome]
    /\ seen = [c \in Callers |-> NullAuth.id]
    /\ acq = [c \in Callers |-> NoAcq]
    /\ invCalls = 0

\* ------------------------------------ the OTP steps of successive attempts
\* the first attempt has filled the login form; mail from the OTP sender
\* arrives in the Inbox
AttemptsInit ==
    /\ mailbox \in {<<>>, <<Message("inbox", TRUE, "preview", 0)>>}
    /\ otpNow = 0
    /\ otpCfg \in [graph : BOOLEAN, maxAgeMinutes : {0}, retries : {MaxPolls}, delayMs : {2000}]
    /\ lg = "form"
    /\ baselineOtpMsgId = NoMsg
    /\ poll = 0
    /\ otp = NoOtp
    /\ preBaseline = 0
    /\ skips = 0
    /\ trail = <<>>
    /\ slept = 0
    /\ AuthIdle
    /\ HttpIdle
    /\ ExtractIdle
    /\ IterationIdle
    /\ ResultIdle
    /\ ProxyIdle
    /\ SenderIdle

AttemptsNext ==
    \/ \E c \in {"none", "preview"} : Deliver([folder |-> "inbox", match |-> TRUE, code |-> c])
    \/ \E fi \in BOOLEAN, fj \in BOOLEAN, fa \in BOOLEAN : CaptureBaseline(fi, fj, fa)
    \/ Submit
    \/ \E fi \in BOOLEAN, fj \in BOOLEAN, fa \in BOOLEAN, fb \in BOOLEAN : Poll(fi, fj, fa, fb)
    \/ NextAttempt

AttemptsSpec == AttemptsInit /\ [][AttemptsNext]_vars

\* ------------------------------------------- one call of fetchOtpFromEmail
\* values of the retries argument: negative, zero, inside and beyond the
\* range the function accepts
RetriesArgs == {0 - 1, 0, 1, 2, 50, 51}

\* the credentials are submitted and fetchOtpFromEmail is about to be
\* called, without a baseline and without the age guard
PollInit ==
    /\ mailbox \in {<<>>} \cup {<<Message(k.folder, k.match, k.code, 0)>> : k \in MessageKinds}
    /\ otpNow = 0
    /\ otpCfg \in [graph : BOOLEAN, maxAgeMinutes : {0}, retries : RetriesArgs, delayMs : {2000}]
    /\ lg = "baselined"
    /\ baselineOtpMsgId = NoMsg
    /\ poll = 0
    /\ otp = NoOtp
    /\ preBaseline = Len(mailbox)
    /\ skips = 0
    /\ trail = <<Event("baseline", 1, baselineOtpMsgId)>>
    /\ slept = 0
    /\ env = Env(TRUE, TRUE, "undefined", MAX_ATTEMPTS)
    /\ now = StartMs
    /\ cachedAuth = NullAuth
    /\ cachedAtMs = 0
    /\ cacheLoaded = TRUE
    /\ inFlightAuthPromise = NoPromise
    /\ file = NoFile
    /\ pc = [c \in Callers |-> "idle"]
    /\ force = [c \in Callers |-> FALSE]
    /\ waits = [c \in Callers |-> NoPromise]
    /\ outcome = [c \in Callers |-> NoOutcome]
    /\ seen = [c \in Callers |-> NullAuth.id]
    /\ acq = [c \in Callers |-> NoAcq]
    /\ invCalls = 0
    /\ HttpIdle
    /\ ExtractIdle
    /\ IterationIdle
    /\ ResultIdle
    /\ ProxyIdle
    /\ SenderIdle

\* an iteration of the loop, whatever the mail transport does
PollStep ==
    \E fi \in BOOLEAN, fj \in BOOLEAN, fa \in BOOLEAN, fb \in BOOLEAN : Poll(fi, fj, fa, fb)

PollNext ==
    \/ \E k \in MessageKinds : Deliver(k)
    \/ Submit
    \/ PollStep

\* every mail query and every wait between polls terminates
PollSpec == PollInit /\ [][PollNext]_vars /\ WF_vars(Submit) /\ WF_vars(PollStep)

\* ----------------------------------------- the waits of fetchOtpFromEmail
\* fetchOtpFromEmail is about to be called on a mailbox that stays as it
\* is, with the latest message as baseline or without baseline
WaitInit ==
    /\ mailbox \in {<<>>} \cup {<<Message(k.folder, k.match, k.code, 0)>> : k \in MessageKinds}
    /\ otpNow \in {0, OtpTickMs}
    /\ otpCfg \in [graph : {TRUE}, maxAgeMinutes : {0, 2}, retries : RetriesArgs, delayMs : {2000}]
    /\ lg = "baselined"
    /\ baselineOtpMsgId \in {NoMsg, getLatestMessageFrom(FALSE, FALSE, FALSE)}
    /\ poll = 0
    /\ otp = NoOtp
    /\ preBaseline = Len(mailbox)
    /\ skips = 0
    /\ trail = <<Event("baseline", 1, baselineOtpMsgId)>>
    /\ slept = 0
    /\ AuthIdle
    /\ HttpIdle
    /\ ExtractIdle
    /\ IterationIdle
    /\ ResultIdle
    /\ ProxyIdle
    /\ SenderIdle

WaitNext ==
    \/ Submit
    \/ PollStep

WaitSpec == WaitInit /\ [][WaitNext]_vars

\* --------------------------------------------- getAuth on a loaded cache
\* the access tokens a loaded cache can hold: none, an opaque one, JWTs with
\* exp 0, with an exp in the past and with one in the future
CachedTokens == Tokens \cup {JwtToken(0), JwtToken(StartMs \div 1000)}

\* the cache holds a credential acquired at StartMs, some time ago or not
CacheInit ==
    /\ env \in {Env(TRUE, TRUE, t, MAX_ATTEMPTS) : t \in EnvTtls}
    /\ now \in {StartMs, StartMs + TickMs}
    /\ cachedAuth \in {Bundle(0, tok) : tok \in CachedTokens}
    /\ cachedAtMs = StartMs
    /\ cacheLoaded = TRUE
    /\ inFlightAuthPromise = NoPromise
    /\ file = FileRecord(cachedAuth, cachedAtMs)
    /\ pc = [c \in Callers |-> "idle"]
    /\ force = [c \in Callers |-> FALSE]
    /\ waits = [c \in Callers |-> NoPromise]
    /\ outcome = [c \in Callers |-> NoOutcome]
    /\ seen = [c \in Callers |-> NullAuth.id]
    /\ acq = [c \in Callers |-> NoAcq]
    /\ invCalls = 0
    /\ OtpIdle
    /\ HttpIdle
    /\ ExtractIdle
    /\ IterationIdle
    /\ ResultIdle
    /\ ProxyIdle
    /\ SenderIdle

CacheNext == \E c \in Callers, t \in Later : Call(c, t)

CacheSpec == CacheInit /\ [][CacheNext]_vars

\* one caller calls getAuth() on a loaded cache whose credential may have
\* expired; the cache file holds the record of the cache
FailSpec == CacheInit /\ [][LoopNext]_vars

\* ------------------------------------------------- a restart of the process
\* the process ends while no call and no acquisition is pending and a new
\* process starts: the module state has its initial values (lines 353-356),
\* the cache file is what the old process left
Restart ==
    /\ cacheLoaded
    /\ pc[1] = "done"
    /\ pc[2] = "idle"
    /\ \A p \in Callers : ~Running(p)
    /\ cachedAuth' = NullAuth
    /\ cachedAtMs' = 0
    /\ cacheLoaded' = FALSE
    /\ inFlightAuthPromise' = NoPromise
    /\ UNCHANGED <<env, now, file, pc, force, waits, outcome, seen, acq, invCalls>>
    /\ UNCHANGED otpVars
    /\ UNCHANGED xVars
    /\ UNCHANGED itVars
    /\ UNCHANGED resVars
    /\ UNCHANGED proxyVars
    /\ UNCHANGED senderVars
    /\ UNCHANGED srvVars

\* the first caller calls getAuth on a loaded cache, forcing or not; the
\* second caller calls after the restart
RestartNext ==
    \/ \E t \in Later : Call(1, t)
    \/ CallForce(1)
    \/ ProceedForce(1)
    \/ Restart
    \/ CallFirst(2, FALSE)
    \/ ReadDone(2)
    \/ \E t \in Later : Proceed(2, t)
    \/ \E c \in Callers : Settle(c)
    \/ \E p \in Callers, ok \in BOOLEAN : LaunchDone(p, ok)
    \/ \E p \in Callers, tok \in BearerTokens, t \in Later : AttemptSucceed(p, tok, t)
    \/ \E p \in Callers, code \in AttemptErrCodes : AttemptFail(p, code)
    \/ \E p \in Callers : BackoffDone(p)
    \/ \E p \in Callers, made \in BOOLEAN : ContextFail(p, made)
    \/ \E p \in Callers, w \in BOOLEAN : CloseDone(p, w)

RestartSpec == CacheInit /\ [][RestartNext]_vars

\* ------------------------------------------- the result of a login
\* the strings of the headers: 'Mozilla/5.0', 'https://bayan.logisti.sa/',
\* 'https://bayan.logisti.sa'
MozillaUA == 100

BayanReferer == 101

BayanOrigin == 102

\* a header that is not set
NoHeader == <<>>

\* `Bearer ${t}`
BearerOf(t) == <<"Bearer ", t>>

\* (mutant) the request's bearer token is taken whenever storage has none
accessTokenOf_AnyBearer(s) ==
    IF Truthy(s.localStorage) THEN s.localStorage
    ELSE IF Truthy(s.sessionStorage) THEN s.sessionStorage
    ELSE s.lastBearerToken

\* lines 808-823: the token of localStorage, else of sessionStorage, else
\* the last bearer token of a request, else null
accessTokenOf(s) ==
    IF Truthy(s.localStorage) THEN s.localStorage
    ELSE IF Truthy(s.sessionStorage) THEN s.sessionStorage
    ELSE IF Truthy(s.lastBearerToken) THEN s.lastBearerToken
    ELSE NullMs

\* lines 826-838: the result of a successful login
ResultOf(s) ==
    LET accessToken == accessTokenOf(s) IN
    [cookieHeader |-> s.cookieHeader,
     accessToken |-> accessToken,
     headers |-> [Cookie |-> s.cookieHeader,
                  UserAgent |-> IF Truthy(s.userAgent) THEN s.userAgent ELSE MozillaUA,
                  Referer |-> BayanReferer,
                  Origin |-> BayanOrigin,
                  Authorization |-> IF Truthy(accessToken) THEN BearerOf(accessToken)
                                    ELSE NoHeader]]

\* the strings a page can yield: null, '', and a value of its own per place
ResultInit ==
    /\ session \in {Session(cookie, l, s, b, ua) :
                      cookie \in {0, 1}, l \in {NullMs, 0, 2}, s \in {NullMs, 0, 3},
                      b \in {NullMs, 0, 4}, ua \in {NullMs, 0, 5}}
    /\ built = <<>>
    /\ AuthIdle
    /\ OtpIdle
    /\ HttpIdle
    /\ ExtractIdle
    /\ IterationIdle
    /\ ProxyIdle
    /\ SenderIdle

\* the login attempt builds its result
BuildResult ==
    /\ built = <<>>
    /\ built' = <<ResultOf(session)>>
    /\ UNCHANGED session
    /\ UNCHANGED authVars
    /\ UNCHANGED otpVars
    /\ UNCHANGED srvVars
    /\ UNCHANGED xVars
    /\ UNCHANGED itVars
    /\ UNCHANGED proxyVars
    /\ UNCHANGED senderVars

ResultNext == BuildResult

ResultSpec == ResultInit /\ [][ResultNext]_vars

\* ------------------------------------------------------------- extractOtp
\* results of a call: none (null), a code (the digit run starting at
\* character pos of the normalised text, len digits long), or an exception
NoCode == [kind |-> "none", pos |-> 0, len |-> 0, err |-> "none"]

Code(pos, len) == [kind |-> "code", pos |-> pos, len |-> len, err |-> "none"]

Threw(e) == [kind |-> "throws", pos |-> 0, len |-> 0, err |-> e]

\* n characters of class c
Rep(c, n) == [i \in 1 .. n |-> c]

\* !input: null, undefined, '', 0 and false are falsy
Falsy(v) ==
    \/ v.type \in {"null", "undefined"}
    \/ v.type = "string" /\ v.str = <<>>
    \/ v.type = "number" /\ v.str = <<"d">>
    \/ v.type = "boolean" /\ Len(v.str) = 5

\* the two replace() calls of normalizeDigits: Arabic-Indic and Extended
\* Arabic-Indic digits become ASCII digits
ReplaceDigits(str) == [i \in 1 .. Len(str) |-> IF str[i] = "D" THEN "d" ELSE str[i]]

\* \w
IsWordChar(c) == c \in {"d", "w", "k"}

\* a boundary between a digit and a character that is no digit
WordBoundary_NonDigit(t, i) ==
    (i >= 1 /\ t[i] = "d") # (i + 1 <= Len(t) /\ t[i + 1] = "d")

\* \b between character i and character i + 1 of t (i in 0 .. Len(t))
WordBoundary(t, i) ==
    (i >= 1 /\ IsWordChar(t[i])) # (i + 1 <= Len(t) /\ IsWordChar(t[i + 1]))

\* the length of the match of \b(\d{lo,hi})\b at position p of t, 0 when it
\* does not match there
MatchLenAt(t, p, lo, hi) ==
    LET ls == {l \in lo .. hi :
                  /\ p + l - 1 <= Len(t)
                  /\ \A i \in p .. (p + l - 1) : t[i] = "d"
                  /\ WordBoundary(t, p + l - 1)}
    IN IF WordBoundary(t, p - 1) /\ ls # {}
       THEN CHOOSE l \in ls : \A m \in ls : m <= l
       ELSE 0

\* t.match(new RegExp(`\\b(\\d{lo,hi})\\b`)): the leftmost match, its
\* position shifted by off
MatchDigitRun(t, lo, hi, off) ==
    LET ps == {p \in 1 .. Len(t) : MatchLenAt(t, p, lo, hi) > 0}
    IN IF ps = {} THEN NoCode
       ELSE LET p == CHOOSE q \in ps : \A r \in ps : q <= r
            IN Code(off + p, MatchLenAt(t, p, lo, hi))

\* t.match(keywordRegex)?.index, counted from 1; 0 when no keyword occurs
KeywordIndex(t) ==
    LET ks == {i \in 1 .. Len(t) : t[i] \in {"k", "q"}}
    IN IF ks = {} THEN 0 ELSE CHOOSE i \in ks : \A j \in ks : i <= j

\* lines 15-26 of otpUtils.js: the window around the first keyword, then the
\* whole text
SearchCode(t, lo, hi) ==
    LET k == KeywordIndex(t)
        start == IF k - 1 - 80 > 0 THEN k - 1 - 80 ELSE 0
        end == IF k - 1 + 160 < Len(t) THEN k - 1 + 160 ELSE Len(t)
        inWindow == IF k = 0 THEN NoCode
                    ELSE MatchDigitRun(SubSeq(t, start + 1, end), lo, hi, start)
    IN IF inWindow.kind = "code" THEN inWindow ELSE MatchDigitRun(t, lo, hi, 0)

\* extractOtp of src/otpUtils.js (lines 11-27), with normalizeDigits (lines
\* 1-6): destructuring null throws, a truthy value that is no string has no
\* replace(), and a quantifier {lo,hi} with lo > hi is a SyntaxError
extractOtp(text, opts) ==
    IF opts.given = "null" THEN Threw("TypeError")
    ELSE LET minLen == IF opts.minLen = Undef THEN 4 ELSE opts.minLen
             maxLen == IF opts.maxLen = Undef THEN 8 ELSE opts.maxLen
         IN IF Falsy(text) THEN NoCode
            ELSE IF text.type # "string" THEN Threw("TypeError")
            ELSE IF minLen > maxLen THEN Threw("SyntaxError")
            ELSE SearchCode(ReplaceDigits(text.str), minLen, maxLen)

\* Math.max(lo, Math.min(20, Number(n) || dflt))
ClampLen(n, dflt, lo) ==
    LET v == IF n = Undef \/ n = 0 THEN dflt ELSE n
        capped == IF v > 20 THEN 20 ELSE v
    IN IF capped < lo THEN lo ELSE capped

\* extractOtp of src/unnamed/part_001 (lines 15-48), with its normalizeDigits
\* (lines 3-10): the options are clamped, the input goes through String(),
\* and the search runs inside try/catch
extractOtpSafe(text, opts) ==
    LET minLen == ClampLen(IF opts.given = "object" THEN opts.minLen ELSE Undef, 4, 1)
        maxLen == ClampLen(IF opts.given = "object" THEN opts.maxLen ELSE Undef, 8, minLen)
    IN IF text.type \in {"null", "undefined"} \/ text.str = <<>> THEN NoCode
       ELSE SearchCode(ReplaceDigits(text.str), minLen, maxLen)

\* "12345 ref otp 4821": an order number, then a keyword with its code
OrderThenCode ==
    Rep("d", 5) \o <<"s">> \o Rep("w", 3) \o <<"s">> \o Rep("k", 3) \o <<"s">> \o Rep("d", 4)

\* a digit run, then more than 80 letters, then a keyword: the run lies
\* before the window of the keyword
RunOutsideWindow == Rep("d", 6) \o <<"s">> \o Rep("w", 81) \o <<"s">> \o Rep("k", 3)

\* ten digits, a separator, 75 letters, then a keyword: the window of the
\* keyword starts 80 characters before it, after the sixth digit
RunCutByWindow == Rep("d", 10) \o <<"s">> \o Rep("w", 75) \o Rep("k", 3)

\* ------------------------------------- extraction in one poll iteration
\* extractOtp(text) of a message part, with the part it was tried on
TryPart(part, text) ==
    Extraction(extractOtp(Value("string", text), Options("undefined", Undef, Undef)), part, 0)

\* a || b on extraction results: a code is a non-empty string, null is falsy
OrElse(a, b) == IF a.otp.kind = "code" THEN a ELSE b

\* (mutant) the full body is fetched in every iteration
FetchesBody_Always(first, dbg) == TRUE

\* line 246: if (!otp || DEBUG)
FetchesBody(first, dbg) == first.otp.kind # "code" \/ dbg

\* lines 238-258 of fetchOtpFromEmail, with getMessageBodyById (lines
\* 151-162), which returns null when the fetch fails
ExtractFromMessage(m) ==
    LET subject == TryPart("subject", m.subject)
        preview == TryPart("bodyPreview", m.bodyPreview)
        first == OrElse(subject, preview)
        bodyContent == IF m.failBody THEN <<>> ELSE m.body
        second == OrElse(first, OrElse(subject, OrElse(preview, TryPart("body", bodyContent))))
    IN IF FetchesBody(first, m.DEBUG)
       THEN [second EXCEPT !.bodyFetches = 1]
       ELSE first

\* "OTP 4821", "123456", "code: 55555": three texts whose codes differ
SubjectWithCode == Rep("k", 3) \o <<"s">> \o Rep("d", 4)

PreviewWithCode == Rep("d", 6)

BodyWithCode == Rep("k", 4) \o <<"s", "s">> \o Rep("d", 5)

\* a text without a code
NoCodeText == Rep("w", 5)

IterationInit ==
    /\ itMsg \in {MessageParts(sub, pre, body, dbg, fail) :
                    sub \in {<<>>, NoCodeText, SubjectWithCode},
                    pre \in {<<>>, NoCodeText, PreviewWithCode},
                    body \in {<<>>, NoCodeText, BodyWithCode},
                    dbg \in BOOLEAN, fail \in BOOLEAN}
    /\ itOut = <<>>
    /\ AuthIdle
    /\ OtpIdle
    /\ HttpIdle
    /\ ExtractIdle
    /\ ResultIdle
    /\ ProxyIdle
    /\ SenderIdle

\* the extraction of one poll iteration
ExtractIteration ==
    /\ itOut = <<>>
    /\ itOut' = <<ExtractFromMessage(itMsg)>>
    /\ UNCHANGED itMsg
    /\ UNCHANGED authVars
    /\ UNCHANGED otpVars
    /\ UNCHANGED srvVars
    /\ UNCHANGED <<xText, xOpts, xOuts>>
    /\ UNCHANGED resVars
    /\ UNCHANGED proxyVars
    /\ UNCHANGED senderVars

IterationNext == ExtractIteration

IterationSpec == IterationInit /\ [][IterationNext]_vars

\* the texts explored: a code after an English keyword, after an Arabic one
\* in Arabic-Indic digits, a bare digit run, a run that is too long, a run
\* glued to letters, words only, runs before the window and across its start
Texts ==
    {Rep("w", 3) \o <<"s">> \o Rep("k", 4) \o <<"s">> \o Rep("w", 2) \o <<"s">> \o Rep("d", 6),
     Rep("q", 3) \o <<"s">> \o Rep("D", 4),
     Rep("d", 6),
     Rep("d", 9),
     Rep("w", 2) \o Rep("d", 6),
     Rep("w", 5),
     OrderThenCode,
     RunOutsideWindow,
     RunCutByWindow}

\* the values explored as first argument
InputValues ==
    {Value("string", t) : t \in Texts \cup {<<>>}}
    \cup {Value("null", <<>>), Value("undefined", <<>>),
          Value("number", Rep("d", 6)), Value("number", <<"d">>),
          Value("boolean", Rep("w", 4)), Value("boolean", Rep("w", 5)),
          Value("object", <<"s">> \o Rep("w", 6) \o <<"s">> \o Rep("w", 6) \o <<"s">>)}

\* the options explored as second argument
OptionValues ==
    {Options("undefined", Undef, Undef), Options("null", Undef, Undef)}
    \cup {Options("object", lo, hi) : lo \in {Undef, 4, 6, 9}, hi \in {Undef, 4, 8, 12}}

\* the calls made with the same arguments
MaxCalls == 2

ExtractInit ==
    /\ xText \in InputValues
    /\ xOpts \in OptionValues
    /\ xOuts = <<>>
    /\ env = Env(TRUE, TRUE, "undefined", MAX_ATTEMPTS)
    /\ now = StartMs
    /\ cachedAuth = NullAuth
    /\ cachedAtMs = 0
    /\ cacheLoaded = TRUE
    /\ inFlightAuthPromise = NoPromise
    /\ file = NoFile
    /\ pc = [c \in Callers |-> "idle"]
    /\ force = [c \in Callers |-> FALSE]
    /\ waits = [c \in Callers |-> NoPromise]
    /\ outcome = [c \in Callers |-> NoOutcome]
    /\ seen = [c \in Callers |-> NullAuth.id]
    /\ acq = [c \in Callers |-> NoAcq]
    /\ invCalls = 0
    /\ OtpIdle
    /\ HttpIdle
    /\ IterationIdle
    /\ ResultIdle
    /\ ProxyIdle
    /\ SenderIdle

\* one call of each extractOtp with the arguments chosen
Extract ==
    /\ Len(xOuts) < MaxCalls
    /\ xOuts' = Append(xOuts, [utils |-> extractOtp(xText, xOpts),
                               safe |-> extractOtpSafe(xText, xOpts)])
    /\ UNCHANGED <<xText, xOpts>>
    /\ UNCHANGED itVars
    /\ UNCHANGED resVars
    /\ UNCHANGED proxyVars
    /\ UNCHANGED senderVars
    /\ UNCHANGED authVars
    /\ UNCHANGED otpVars
    /\ UNCHANGED srvVars

ExtractNext == Extract

ExtractSpec == ExtractInit /\ [][ExtractNext]_vars

\* ------------------------------------------------------- the /bayan route
\* status codes an upstream answers with
UpstreamStatuses == {200, 201, 204, 400, 404, 500}

\* upstream.ok: the status is in 200..299
Ok(u) == u.status >= 200 /\ u.status <= 299

\* contentType.includes('application/json')
isJson(u) == u.contentType = "json"

\* contentType.includes('application/pdf') || contentType.includes('octet-stream')
isBinary(u) == u.contentType = "pdf"

\* a response written to res: the status and what kind of body it carries
Reply(status, body) == [status |-> status, body |-> body]

\* the status Express sends when the handler never calls res.status()
DefaultStatus == 200

\* the catch of the handler: 504 for a TimeoutError, 502 for any other error
ProxyCatch(u) ==
    IF u.fault \in {"fetchTimeout", "readTimeout"}
    THEN Reply(504, "error")
    ELSE Reply(502, "error")

\* the response proxyToBayan writes for one request
proxyToBayan(u) ==
    IF ~u.authOk THEN Reply(502, "error")
    ELSE IF u.fault \in {"fetchTimeout", "fetchError"} THEN ProxyCatch(u)
    ELSE IF ~Ok(u)
         \* upstream.text().catch(() => ''): a failed read is an empty text
         THEN Reply(u.status, "text")
    ELSE IF u.status = 204 \/ u.contentLength0 THEN Reply(204, "empty")
    ELSE IF u.fault \in {"readTimeout", "readError"} THEN ProxyCatch(u)
    ELSE IF isBinary(u) \/ u.isPrintEndpoint THEN Reply(u.status, "binary")
    ELSE IF isJson(u) /\ u.parses THEN Reply(DefaultStatus, "json")
    ELSE Reply(DefaultStatus, "text")

ProxyInit ==
    /\ upstream \in {Upstream(a, pr, f, st, ct, l0, ps) :
                       a \in BOOLEAN, pr \in BOOLEAN,
                       f \in {"none", "fetchTimeout", "fetchError", "readTimeout", "readError"},
                       st \in UpstreamStatuses, ct \in {"none", "json", "text", "pdf"},
                       l0 \in BOOLEAN, ps \in BOOLEAN}
    /\ pxRes = <<>>
    /\ AuthIdle
    /\ OtpIdle
    /\ HttpIdle
    /\ ExtractIdle
    /\ IterationIdle
    /\ ResultIdle
    /\ SenderIdle

\* the /bayan handler runs for the request
Proxy ==
    /\ pxRes = <<>>
    /\ pxRes' = <<proxyToBayan(upstream)>>
    /\ UNCHANGED upstream
    /\ UNCHANGED authVars
    /\ UNCHANGED otpVars
    /\ UNCHANGED srvVars
    /\ UNCHANGED xVars
    /\ UNCHANGED itVars
    /\ UNCHANGED resVars
    /\ UNCHANGED senderVars

ProxyNext == Proxy

ProxySpec == ProxyInit /\ [][ProxyNext]_vars

\* ------------------------------------------------------------ matchSender
\* strings are sequences of characters: a lower-case letter, an upper-case
\* letter, the at sign and a blank
Chars == {"a", "B", "@", " "}

\* the longest sender address and the longest wanted address explored
MaxAddrLen == 4

MaxWantedLen == 3

Strings(n) == UNION {[1 .. k -> Chars] : k \in 0 .. n}

\* String.prototype.toLowerCase
toLowerCase(str) == [i \in 1 .. Len(str) |-> IF str[i] = "B" THEN "b" ELSE str[i]]

\* String.prototype.trim: without the leading and trailing blanks
trim(str) ==
    LET inked == {i \in 1 .. Len(str) : str[i] # " "}
    IN  IF inked = {} THEN <<>>
        ELSE SubSeq(str, CHOOSE i \in inked : \A j \in inked : i <= j,
                         CHOOSE i \in inked : \A j \in inked : i >= j)

\* a.includes(w)
includes(a, w) == \E i \in 0 .. Len(a) - Len(w) : SubSeq(a, i + 1, i + Len(w)) = w

\* a.endsWith(x)
endsWith(a, x) == Len(a) >= Len(x) /\ SubSeq(a, Len(a) - Len(x) + 1, Len(a)) = x

\* the positions of the at signs of w
Ats(w) == {i \in 1 .. Len(w) : w[i] = "@"}

\* w.includes('@') ? w.split('@')[1] : '': the text between the first at
\* sign and the next one (or the end)
domainOf_None(w) == <<>>

domainOf(w) ==
    IF Ats(w) = {} THEN <<>>
    ELSE LET first == CHOOSE i \in Ats(w) : \A j \in Ats(w) : i <= j
             rest == {i \in Ats(w) : i > first}
             stop == IF rest = {} THEN Len(w) + 1
                     ELSE CHOOSE i \in rest : \A j \in rest : i <= j
         IN  SubSeq(w, first + 1, stop - 1)

matchSender(ad, wa) ==
    LET a == toLowerCase(trim(ad))
        w == toLowerCase(trim(wa))
        domain == domainOf(w)
    IN  IF a = <<>> \/ w = <<>> THEN FALSE
        ELSE IF a = w THEN TRUE
        ELSE IF includes(a, w) THEN TRUE
        ELSE IF domain # <<>> /\ endsWith(a, <<"@">> \o domain) THEN TRUE
        ELSE FALSE

\* the wanted sender is the configured address of the OTP sender: it has at
\* most one at sign; the address of a message is any text
SenderInit ==
    /\ addr \in Strings(MaxAddrLen)
    /\ wanted \in {w \in Strings(MaxWantedLen) : Cardinality(Ats(w)) <= 1}
    /\ accepted = <<>>
    /\ AuthIdle
    /\ OtpIdle
    /\ HttpIdle
    /\ ExtractIdle
    /\ IterationIdle
    /\ ResultIdle
    /\ ProxyIdle

\* pickLatestMatch tests the sender of a message
Match ==
    /\ accepted = <<>>
    /\ accepted' = <<matchSender(addr, wanted)>>
    /\ UNCHANGED <<addr, wanted>>
    /\ UNCHANGED authVars
    /\ UNCHANGED otpVars
    /\ UNCHANGED srvVars
    /\ UNCHANGED xVars
    /\ UNCHANGED itVars
    /\ UNCHANGED resVars
    /\ UNCHANGED proxyVars

SenderNext == Match

SenderSpec == SenderInit /\ [][SenderNext]_vars

\* ------------------------------------------------------------------ claims
\* the step in which caller c, not forcing, takes getAuth's decision
\* (lines 545-559)
NonForceDecision(c) ==
    /\ pc[c] \in {"idle", "loaded"}
    /\ pc'[c] \in {"await", "awaitOwn", "done"}

\* no getAuth({forceRefresh: true}) and no invalidateAuthCache() so far
NoForcing == invCalls = 0 /\ \A c \in Callers : ~force[c]

\* caller c was served from the cache
ServedFromCache(c) == pc[c] = "done" /\ waits[c] = NoPromise

\* C1: at every moment at most one login sequence (the retry loop) is
\* executing, whatever mix of getAuth(), getAuth({forceRefresh: true}) and
\* invalidateAuthCache() calls is issued.
C1_AtMostOneLoginSequence ==
    Cardinality({p \in Callers : InLoginSequence(p)}) <= 1

\* C2: as long as no call forces and nothing invalidates, at most one
\* acquisition is in flight; it is the one the marker names, the caller that
\* started it awaits it, and every other caller inside getAuth that awaits
\* an unsettled acquisition awaits that same one.
C2_SingleFlight ==
    NoForcing =>
        /\ Cardinality({p \in Callers : Running(p)}) <= 1
        /\ \A p \in Callers :
             Running(p) => inFlightAuthPromise = p /\ pc[p] = "awaitOwn"
        /\ \A c \in Callers :
             pc[c] \in {"await", "awaitOwn"} /\ ~Settled(waits[c])
                 => waits[c] = inFlightAuthPromise

\* C2 witness: one caller runs the login sequence and another awaits it
C2_Witness ==
    /\ NoForcing
    /\ \E c1, c2 \in Callers :
         /\ pc[c1] = "awaitOwn" /\ InLoginSequence(c1)
         /\ pc[c2] = "await" /\ waits[c2] = c1

\* C3: a caller that coalesced onto an acquisition settles with exactly the
\* outcome of that acquisition (same bundle or same error), which is also
\* what the caller that started it gets.
C3_CoalescedSameOutcome ==
    \A c \in Callers :
        pc[c] = "done" /\ waits[c] \notin {NoPromise, c} =>
            /\ Settled(waits[c])
            /\ outcome[c] = acq[waits[c]].out
            /\ pc[waits[c]] = "done" => outcome[c] = outcome[waits[c]]

\* C3 witness: a coalesced caller and the starter both returned the bundle
\* of the starter's login
C3_Witness ==
    \E c \in Callers :
        /\ pc[c] = "done" /\ waits[c] \notin {NoPromise, c}
        /\ pc[waits[c]] = "done"
        /\ outcome[c].kind = "ok" /\ outcome[c].bundle.id = waits[c]

\* expiresAtMs of the cached credential as the specification derives it
ExpiresAtMs ==
    IF cachedAuth.accessToken.kind = "jwt"
    THEN cachedAuth.accessToken.exp * 1000
    ELSE cachedAtMs + ttlMs

\* the wait has returned an OTP
OtpObtained == lg = "found" /\ otp.found

\* C4: whatever the mailbox holds and however the polls go, when the
\* baseline is a message id, the OTP that fetchOtpFromEmail returns is never
\* the one of the message with that id: a poll that meets the baseline
\* message skips it, whether or not it carries a code.
C4_NeverFromBaseline ==
    [](OtpObtained /\ baselineOtpMsgId # NoMsg => otp.msg # baselineOtpMsgId)
    /\ [][\A fi \in BOOLEAN, fj \in BOOLEAN, fa \in BOOLEAN, fb \in BOOLEAN :
            /\ Poll(fi, fj, fa, fb)
            /\ baselineOtpMsgId # NoMsg
            /\ getLatestMessageFrom(fi, fj, fa) = baselineOtpMsgId
            => /\ ~otp'.found
               /\ lg' # "found"
               /\ skips' = skips + 1]_vars

\* C4 witness: the baseline message carries a code, a poll met and skipped
\* it, and the OTP came from another message
C4_Witness ==
    /\ OtpObtained
    /\ baselineOtpMsgId # NoMsg
    /\ mailbox[baselineOtpMsgId].match
    /\ mailbox[baselineOtpMsgId].code = "preview"
    /\ RecentEnough(baselineOtpMsgId)
    /\ skips >= 1
    /\ otp.msg # baselineOtpMsgId

\* C5: every OTP a login attempt obtains comes from a message delivered
\* after the attempt captured its baseline, whatever the baseline lookup
\* returned (a message id, none, or a failure).
C5_OtpFromLaterMessage == OtpObtained => otp.msg > preBaseline

\* C6: a getAuth() without forceRefresh that finds a cached credential and
\* no acquisition in flight serves it if and only if
\* now < expiresAtMs - 60000, in the token-expiry case and in the
\* fallback-TTL case alike.
C6_ServedIffBeforeSkewedExpiry ==
    [][\A c \in Callers :
         NonForceDecision(c) /\ inFlightAuthPromise = NoPromise
                             /\ cachedAuth # NullAuth
         => ((pc'[c] = "done" /\ outcome'[c] = Resolved(cachedAuth))
               <=> now' < ExpiresAtMs - skewMs)]_vars

\* C7: getAuth({forceRefresh: true}) clears the cached credential, starts an
\* acquisition of its own and settles with that acquisition's outcome; a
\* bundle it returns is the new one, never the one cached when it was called.
C7_ForceBypassesCache ==
    /\ [](\A c \in Callers :
            force[c] /\ pc[c] = "done" =>
                /\ waits[c] = c
                /\ Settled(c)
                /\ outcome[c] = acq[c].out
                /\ outcome[c].kind = "ok" =>
                     outcome[c].bundle.id = c /\ outcome[c].bundle.id # seen[c])
    /\ [][\A c \in Callers :
            pc[c] # "invalidated" /\ pc'[c] = "invalidated"
                => cachedAuth' = NullAuth]_vars

\* C7 witness: a forcing call made while a credential was cached returned
\* a new bundle
C7_Witness ==
    \E c \in Callers :
        /\ force[c] /\ pc[c] = "done" /\ seen[c] >= 0
        /\ outcome[c].kind = "ok"

\* the acquisition used up its attempts
Exhausted(p) ==
    /\ Settled(p)
    /\ acq[p].out.kind = "err"
    /\ acq[p].out.err.code \in AttemptErrCodes

C9_MarkerClearedFreshStart ==
    /\ [](/\ inFlightAuthPromise # NoPromise =>
               /\ pc[inFlightAuthPromise] = "awaitOwn"
               /\ waits[inFlightAuthPromise] = inFlightAuthPromise
          /\ \A c \in Callers :
               pc[c] \in {"await", "awaitOwn"} =>
                   /\ waits[c] # NoPromise
                   /\ Running(waits[c]) \/ Settled(waits[c])
          /\ (\A c \in Callers : pc[c] \in {"idle", "done"})
               => inFlightAuthPromise = NoPromise)
    /\ [][/\ \A c \in Callers :
               NonForceDecision(c) /\ inFlightAuthPromise = NoPromise
                                   /\ ~isCachedAuthValid(ttlMs, now')
               => /\ pc'[c] = "awaitOwn"
                  /\ inFlightAuthPromise' = c
                  /\ acq[c].st = "none" /\ acq'[c].st \in {"launch", "settled"}
          /\ \A p \in Callers :
               acq[p].st # "attempt" /\ acq'[p].st = "attempt"
                                     /\ acq[p].st # "backoff"
               => acq'[p].attempt = 1 /\ acq'[p].lastErr = NoErr]_vars

\* C9 witness: after an acquisition used up its attempts and its caller
\* returned, a later plain call runs attempt 1 of a new acquisition
C9_Witness ==
    /\ NoForcing
    /\ \E p, q \in Callers :
         /\ p # q /\ Exhausted(p) /\ pc[p] = "done"
         /\ acq[q].st = "attempt" /\ acq[q].attempt = 1
         /\ inFlightAuthPromise = q

\* C10: a getAuth() without forceRefresh that finds a valid cached
\* credential and no acquisition in flight returns that bundle and starts
\* nothing: no acquisition is created and the marker stays clear.
C10_CacheHitStartsNothing ==
    [][\A c \in Callers :
         NonForceDecision(c) /\ inFlightAuthPromise = NoPromise
                             /\ isCachedAuthValid(ttlMs, now')
         => /\ pc'[c] = "done"
            /\ outcome'[c] = Resolved(cachedAuth)
            /\ acq' = acq
            /\ inFlightAuthPromise' = NoPromise]_vars

\* C10 witness: a caller was served from the cache and started nothing
C10_Witness ==
    \E c \in Callers :
        /\ ServedFromCache(c) /\ ~force[c]
        /\ outcome[c].kind = "ok" /\ acq[c].st = "none"

\* the step in which acquisition p's attempt succeeds (lines 840-849)
LoginSucceeds(p) ==
    /\ acq[p].st = "attempt"
    /\ acq'[p].st = "closing"
    /\ acq'[p].out.kind = "ok"

\* expiresAtMs of bundle b acquired at time t, as the specification derives it
ExpiresAtMsOf(b, t) ==
    IF b.accessToken.kind = "jwt" THEN b.accessToken.exp * 1000 ELSE t + ttlMs

C12_AttemptsInOrder ==
    /\ [](\A p \in Callers :
            /\ acq[p].attempt <= env.maxAttempts
            /\ acq[p].st = "backoff" =>
                 /\ acq[p].attempt < env.maxAttempts
                 /\ acq[p].delay = 1500 * acq[p].attempt
                 /\ acq[p].lastErr.attempt = acq[p].attempt)
    /\ [][\A p \in Callers :
            /\ acq'[p].attempt # acq[p].attempt =>
                 /\ acq'[p].attempt = acq[p].attempt + 1
                 /\ acq'[p].st = "attempt"
                 /\ acq[p].attempt = 0 => acq[p].st = "launch"
                 /\ acq[p].attempt >= 1 =>
                      /\ acq[p].st = "backoff"
                      /\ acq[p].delay = 1500 * acq[p].attempt
                      /\ acq[p].lastErr.attempt = acq[p].attempt
            /\ acq[p].st # "backoff" /\ acq'[p].st = "backoff" =>
                 acq[p].st = "attempt"
            /\ acq[p].st = "attempt" /\ acq[p].attempt = env.maxAttempts =>
                 acq'[p].st # "backoff"
            /\ acq[p].out.kind = "ok" =>
                 /\ acq'[p].st \notin {"attempt", "backoff"}
                 /\ acq'[p].attempt = acq[p].attempt]_vars

\* C12 witness: attempt 2 has failed and the acquisition sleeps 3000 ms
\* before attempt 3
C12_Witness ==
    \E p \in Callers :
        /\ acq[p].st = "backoff"
        /\ acq[p].attempt = 2
        /\ acq[p].delay = 3000
        /\ env.maxAttempts = 3

\* the errors thrown before the retry loop: missing credentials, no browser
\* executable, browser launch failed
ConfigErrCodes == {"MISSING_CREDENTIALS", "NO_BROWSER", "LAUNCH_FAILED"}

\* C13: with BAYAN_IDENTITY_NUMBER or BAYAN_PASSWORD missing, or no browser
\* executable found, an acquisition never launches a browser, runs no
\* attempt and sleeps no backoff: it is rejected at once with the
\* configuration error, and so is every getAuth() that awaits it; an
\* acquisition rejected with a configuration error has run zero attempts.
C13_ConfigErrorsFailFast ==
    /\ ~env.creds \/ ~env.browser =>
         /\ \A p \in Callers :
              /\ acq[p].st \in {"none", "settled"}
              /\ acq[p].attempt = 0 /\ acq[p].delay = 0 /\ ~acq[p].browser
              /\ acq[p].st = "settled" =>
                   acq[p].out = Rejected(Err(IF ~env.creds THEN "MISSING_CREDENTIALS"
                                                           ELSE "NO_BROWSER", 0))
         /\ \A c \in Callers :
              pc[c] = "done" /\ waits[c] # NoPromise =>
                  /\ outcome[c].kind = "err"
                  /\ outcome[c].err.code \in ConfigErrCodes
    /\ \A p \in Callers :
         acq[p].out.kind = "err" /\ acq[p].out.err.code \in ConfigErrCodes =>
             /\ acq[p].attempt = 0
             /\ acq[p].delay = 0
             /\ acq[p].lastErr = NoErr

\* C13 witness: with the credentials missing a getAuth() was rejected by an
\* acquisition that ran no attempt
C13_Witness ==
    /\ ~env.creds
    /\ \E c \in Callers :
         /\ pc[c] = "done" /\ waits[c] = c
         /\ outcome[c] = Rejected(Err("MISSING_CREDENTIALS", 0))
         /\ acq[c].attempt = 0

\* the request of caller c has timed out while its getAuth() was pending
TimedOutPending(c) == http[c].timedOut /\ pc[c] \notin {"idle", "done"}

\* C14: the request timer firing before getAuth() settles changes nothing
\* of the orchestrator's state; the acquisition the timed-out call awaits
\* runs on until it settles, and the call itself returns; a successful
\* login still stores its bundle in the cache; once the calls have returned
\* the marker is clear, and a later request is then served from the cache or
\* starts an acquisition of its own.
C14_TimeoutKeepsAcquisition ==
    /\ [][\A c \in Callers :
            ~http[c].timedOut /\ http'[c].timedOut => UNCHANGED authVars]_vars
    /\ [][\A p \in Callers :
            LoginSucceeds(p) /\ http[p].timedOut
            /\ now' < ExpiresAtMsOf(acq'[p].out.bundle, now') - skewMs
            => cachedAuth' = acq'[p].out.bundle /\ cachedAtMs' = now']_vars
    /\ [](\A c \in Callers :
            http[c].timedOut /\ pc[c] = "done" =>
                /\ waits[c] = NoPromise \/ Settled(waits[c])
                /\ inFlightAuthPromise # c)
    /\ []((\A c \in Callers : pc[c] \in {"idle", "done"})
            => inFlightAuthPromise = NoPromise)
    /\ [][\A c, d \in Callers :
            NonForceDecision(c) /\ http[d].timedOut /\ pc[d] = "done"
            => \/ pc'[c] = "done" /\ outcome'[c] = Resolved(cachedAuth)
               \/ pc'[c] = "awaitOwn" /\ inFlightAuthPromise' = c]_vars
    /\ \A c \in Callers :
         TimedOutPending(c) ~> (pc[c] = "done" /\ inFlightAuthPromise # c)

\* C14 witness: a request timed out and was answered 504, the login it had
\* started succeeded afterwards, and the next request was served that
\* login's bundle from the cache
C14_Witness ==
    \E c, d \in Callers :
        /\ http[d].timedOut /\ http[d].sent = <<Response(504, "AUTH_TIMEOUT")>>
        /\ pc[d] = "done" /\ waits[d] = d /\ http[d].handled
        /\ ServedFromCache(c)
        /\ outcome[c].kind = "ok" /\ outcome[c].bundle.id = d

\* Math.min(Math.max(1, Number(r) || 5), 50)
ClampedRetries(r) ==
    IF r = 0 THEN 5 ELSE IF r < 1 THEN 1 ELSE IF r > 50 THEN 50 ELSE r

QueryFailed(failInbox, failJunk, failAll, failBody) ==
    LET inboxMatch == IF failInbox THEN NoMsg ELSE pickLatestMatch({"inbox"})
        junkMatch == IF failJunk THEN NoMsg ELSE pickLatestMatch({"junkemail"})
        msg == getLatestMessageFrom(failInbox, failJunk, failAll)
    IN \/ failInbox
       \/ inboxMatch = NoMsg /\ failJunk
       \/ inboxMatch = NoMsg /\ junkMatch = NoMsg /\ failAll
       \/ /\ failBody
          /\ msg # NoMsg /\ ~IsBaseline(msg) /\ RecentEnough(msg)
          /\ mailbox[msg].code # "preview"

\* C16: a poll iteration in which a mailbox query fails (Inbox, Junk,
\* all-folders or full body) is a miss: it returns no code, and polling
\* goes on with the next iteration unless it was the last.
C16_FailedQueryIsMiss ==
    [][\A fi \in BOOLEAN, fj \in BOOLEAN, fa \in BOOLEAN, fb \in BOOLEAN :
         Poll(fi, fj, fa, fb) /\ QueryFailed(fi, fj, fa, fb)
         => /\ ~otp'.found
            /\ lg' = IF poll < maxRetries THEN "polling" ELSE "exhausted"]_vars

\* the most recent message of the whole mailbox whose sender matches
TrueLatest == pickLatestMatch(Folders)

\* C17: every poll and every baseline capture evaluates the most recent
\* message, by received time, among all messages of the mailbox whose sender
\* matches, whichever folder holds it; and when the Message Source refuses
\* the ordered queries, the same message is found by sorting an unordered
\* batch locally.
C17_EvaluatesMostRecent ==
    /\ [][\A fb \in BOOLEAN :
            Poll(FALSE, FALSE, FALSE, fb) =>
                /\ getLatestMessageFrom(FALSE, FALSE, FALSE) = TrueLatest
                /\ otp'.found => otp'.msg = TrueLatest]_vars
    /\ [][CaptureBaseline(FALSE, FALSE, FALSE) /\ otpCfg.graph
            => baselineOtpMsgId' = TrueLatest]_vars
    /\ [][\A fb \in BOOLEAN :
            Poll(TRUE, TRUE, TRUE, fb) =>
                getLatestMessageFrom(TRUE, TRUE, TRUE) = TrueLatest]_vars

\* the cache file holds the credential an earlier process persisted, and it
\* is still before its expiry boundary
PersistedStillValid ==
    /\ file.ok
    /\ file.cachedAuth.id = 0
    /\ now < ExpiresAtMsOf(file.cachedAuth, file.cachedAtMs) - skewMs

\* C18: after a restart, while the persisted credential is still valid and
\* nothing forces or invalidates, no getAuth() starts an acquisition and
\* every getAuth() that has returned has returned the persisted bundle,
\* however many callers call at once.
C18_RestartServesPersisted ==
    NoForcing /\ PersistedStillValid =>
        \A c \in Callers :
            /\ acq[c].st = "none"
            /\ pc[c] = "done" => outcome[c] = Resolved(file.cachedAuth)

\* the errors a getAuth() can fail with: those of the configuration, of the
\* browser and of a login attempt
AcquisitionErrCodes == ConfigErrCodes \cup AttemptErrCodes \cup {"CONTEXT_FAILED"}

\* C19: a missing or corrupt cache file leaves the cache empty and the call
\* goes on; a failed write of the cache file changes neither the result of
\* the acquisition nor the in-memory cache; no getAuth() fails with an error
\* of the cache file, and a call that awaited a successful login returns the
\* bundle of that login, written or not.
C19_PersistenceNeverFatal ==
    /\ [][\A c \in Callers :
            pc[c] = "reading" /\ pc'[c] # "reading" /\ ~file.ok
            => /\ pc'[c] = "loaded"
               /\ cachedAuth' = cachedAuth /\ cachedAtMs' = cachedAtMs
               /\ outcome' = outcome]_vars
    /\ [][\A p \in Callers :
            acq[p].st = "closing" /\ acq'[p].st # "closing"
            => /\ acq'[p].st = "settled"
               /\ acq'[p].out = acq[p].out
               /\ cachedAuth' = cachedAuth /\ cachedAtMs' = cachedAtMs]_vars
    /\ [](\A c \in Callers :
            pc[c] = "done" =>
                /\ outcome[c].kind = "err" =>
                     outcome[c].err.code \in AcquisitionErrCodes
                /\ waits[c] # NoPromise /\ acq[waits[c]].out.kind = "ok"
                   => /\ outcome[c] = acq[waits[c]].out
                      /\ outcome[c].bundle.id = waits[c])

\* C19 witness: the cache file was missing at load and the write after the
\* login failed; the call returned the bundle of its login, which is cached
\* in memory
C19_Witness ==
    \E c \in Callers :
        /\ ~file.ok
        /\ pc[c] = "done" /\ waits[c] = c
        /\ outcome[c].kind = "ok" /\ outcome[c].bundle.id = c
        /\ cachedAuth = outcome[c].bundle

\* C20: extractOtp is total and deterministic: for every first argument
\* (null, undefined, the empty string, values that are no strings, texts
\* without digits, texts with digits) and every minLen/maxLen option each
\* call returns a code or none and never throws, and two calls with equal
\* arguments return equal results.
C20_ExtractOtpTotal ==
    \A i \in 1 .. Len(xOuts) :
        /\ xOuts[i].utils.kind \in {"code", "none"}
        /\ xOuts[i].safe.kind \in {"code", "none"}
        /\ xOuts[i] = xOuts[1]

\* the text of a string argument after normalizeDigits
NormText == ReplaceDigits(xText.str)

\* the lengths a call asks for, the defaults 4 and 8 filled in
AskedMin == IF xOpts.minLen = Undef THEN 4 ELSE xOpts.minLen

AskedMax == IF xOpts.maxLen = Undef THEN 8 ELSE xOpts.maxLen

\* a call with a string and with lengths in order, which both extractOtp
\* versions search with the same lengths
PlainCall == xText.type = "string" /\ xOpts.given # "null" /\ AskedMin <= AskedMax

\* a whole digit run of t: l digits from position p, no digit before or after
IsDigitRun(t, p, l) ==
    /\ l >= 1
    /\ p + l - 1 <= Len(t)
    /\ \A i \in p .. (p + l - 1) : t[i] = "d"
    /\ p = 1 \/ t[p - 1] # "d"
    /\ p + l - 1 = Len(t) \/ t[p + l] # "d"

\* the digit runs of length lo..hi that follow a keyword of t with nothing
\* but separators in between
AdjacentRuns(t, lo, hi) ==
    {r \in (1 .. Len(t)) \X (lo .. hi) :
        /\ IsDigitRun(t, r[1], r[2])
        /\ \E e \in 1 .. (r[1] - 2) :
              /\ t[e] \in {"k", "q"}
              /\ \A i \in (e + 1) .. (r[1] - 1) : t[i] = "s"}

\* C21: for every text with a digit run of length minLen..maxLen adjacent to
\* a keyword, extractOtp returns that adjacent run, not a digit run
\* elsewhere in the text (an order number before the keyword).
C21_ReturnsAdjacentRun ==
    \A i \in 1 .. Len(xOuts) :
        (PlainCall /\ AdjacentRuns(NormText, AskedMin, AskedMax) # {}) =>
            /\ xOuts[i].utils.kind = "code"
            /\ <<xOuts[i].utils.pos, xOuts[i].utils.len>>
                   \in AdjacentRuns(NormText, AskedMin, AskedMax)
            /\ xOuts[i].safe = xOuts[i].utils

\* the first of a set of runs <<position, length>>, as a result
FirstRun(runs) ==
    IF runs = {} THEN NoCode
    ELSE LET r == CHOOSE x \in runs : \A y \in runs : x[1] <= y[1]
         IN Code(r[1], r[2])

\* the whole digit runs of t with lo..hi digits
DigitRuns(t, lo, hi) ==
    {r \in (1 .. Len(t)) \X (lo .. hi) : IsDigitRun(t, r[1], r[2])}

\* those of them with no letter, digit or underscore before and after
DelimitedRuns(t, lo, hi) ==
    {r \in DigitRuns(t, lo, hi) :
        /\ r[1] = 1 \/ ~IsWordChar(t[r[1] - 1])
        /\ r[1] + r[2] - 1 = Len(t) \/ ~IsWordChar(t[r[1] + r[2]])}

\* the text has no keyword, or the window around its first keyword gives no
\* digit run
FallbackCase ==
    LET t == NormText
        k == KeywordIndex(t)
        start == IF k - 1 - 80 > 0 THEN k - 1 - 80 ELSE 0
        end == IF k - 1 + 160 < Len(t) THEN k - 1 + 160 ELSE Len(t)
    IN k = 0 \/ MatchDigitRun(SubSeq(t, start + 1, end), AskedMin, AskedMax, start) = NoCode

C23_OwnBaselinePerAttempt ==
    /\ \A i \in 1 .. Len(trail) :
           trail[i].kind = "submit" =>
               /\ i > 1
               /\ trail[i - 1].kind = "baseline"
               /\ trail[i - 1].attempt = trail[i].attempt
               /\ trail[i - 1].id = trail[i].id
    /\ \A i, j \in 1 .. Len(trail) :
           (trail[i].kind = "baseline" /\ trail[j].kind = "baseline"
               /\ trail[i].attempt = trail[j].attempt) => i = j
    /\ lg = "polling" =>
           /\ trail[Len(trail)] = Event("submit", AttemptNo, baselineOtpMsgId)

\* the second attempt polls with a baseline that differs from the one the
\* first attempt captured
C23_Witness ==
    /\ lg = "polling"
    /\ AttemptNo = 2
    /\ \E i \in 1 .. Len(trail) :
           /\ trail[i].kind = "baseline"
           /\ trail[i].attempt = 1
           /\ trail[i].id # NoMsg
           /\ trail[i].id # baselineOtpMsgId

\* C24: between two consecutive polls of one fetchOtpFromEmail call the
\* wait of the poll interval takes place, whatever the kind of miss and
\* whatever the retries argument, and no wait follows the last iteration.
C24_WaitsBetweenPolls ==
    /\ (lg = "polling" /\ poll > 1) => slept = delay
    /\ lg = "exhausted" => slept = 0

\* the age of message i at the start of the poll that is running
AgeOf(i) == otpNow - mailbox[i].at

\* C25: with maxAgeMinutes > 0 no poll returns the OTP of a message older
\* than maxAgeMinutes at the poll's start (the message is a miss and polling
\* goes on while iterations are left); with maxAgeMinutes <= 0 a message
\* that is not the baseline is accepted at any age.
C25_AgeGuard ==
    [][\A fi \in BOOLEAN, fj \in BOOLEAN, fa \in BOOLEAN, fb \in BOOLEAN :
         Poll(fi, fj, fa, fb) =>
             LET msg == getLatestMessageFrom(fi, fj, fa)
                 limit == otpCfg.maxAgeMinutes * MinuteMs
             IN /\ (otpCfg.maxAgeMinutes > 0 /\ otp'.found) => AgeOf(otp'.msg) <= limit
                /\ (otpCfg.maxAgeMinutes > 0 /\ msg # NoMsg /\ AgeOf(msg) > limit) =>
                       /\ ~otp'.found
                       /\ lg' = IF poll < maxRetries THEN "polling" ELSE "exhausted"
                /\ (otpCfg.maxAgeMinutes <= 0 /\ msg # NoMsg /\ msg # baselineOtpMsgId
                        /\ mailbox[msg].code = "preview") =>
                       otp' = OtpOf(msg)]_vars

\* a poll has found a message with a code that is no baseline and older
\* than maxAgeMinutes, and has not taken its code
C25_Witness ==
    /\ otpCfg.maxAgeMinutes > 0
    /\ otp.tooOld
    /\ lg = "polling"
    /\ \E i \in 1 .. Len(mailbox) :
           /\ mailbox[i].match
           /\ mailbox[i].code = "preview"
           /\ i # baselineOtpMsgId
           /\ AgeOf(i) > otpCfg.maxAgeMinutes * MinuteMs

\* the code extractOtp finds in a text, as the poll iteration calls it
CodeIn(text) == extractOtp(Value("string", text), Options("undefined", Undef, Undef))

\* the order of the parts: the code comes from the subject when the subject
\* has one, else from the preview when the preview has one, else from the
\* body when the body was obtained and has one
PartsInOrder(r) ==
    IF CodeIn(itMsg.subject).kind = "code"
    THEN r.part = "subject" /\ r.otp = CodeIn(itMsg.subject)
    ELSE IF CodeIn(itMsg.bodyPreview).kind = "code"
    THEN r.part = "bodyPreview" /\ r.otp = CodeIn(itMsg.bodyPreview)
    ELSE IF ~itMsg.failBody /\ CodeIn(itMsg.body).kind = "code"
    THEN r.part = "body" /\ r.otp = CodeIn(itMsg.body)
    ELSE r.otp = NoCode

\* subject and preview both give no code
NeedsBody == CodeIn(itMsg.subject) = NoCode /\ CodeIn(itMsg.bodyPreview) = NoCode

\* C26 as stated: extraction tries the subject, then the preview, then the
\* full body, the earlier part winning, and the full body is fetched, at
\* most once, only when both subject and preview gave no code.
C26_BodyOnlyWhenNeeded ==
    \A i \in 1 .. Len(itOut) :
        /\ PartsInOrder(itOut[i])
        /\ itOut[i].bodyFetches <= 1
        /\ itOut[i].bodyFetches = 1 => NeedsBody

\* C26, amended: the same order of the parts, and the full body is fetched
\* exactly once when subject and preview gave no code or DEBUG_OTP is on,
\* and not at all otherwise.
C26_BodyWhenNeededOrDebug ==
    \A i \in 1 .. Len(itOut) :
        /\ PartsInOrder(itOut[i])
        /\ itOut[i].bodyFetches = IF NeedsBody \/ itMsg.DEBUG THEN 1 ELSE 0

\* the three parts hold different codes and the subject's is taken without
\* a fetch of the body
C26_Witness ==
    /\ itMsg = MessageParts(SubjectWithCode, PreviewWithCode, BodyWithCode, FALSE, FALSE)
    /\ itOut = <<Extraction(CodeIn(SubjectWithCode), "subject", 0)>>
    /\ CodeIn(SubjectWithCode) # CodeIn(PreviewWithCode)
    /\ CodeIn(PreviewWithCode) # CodeIn(BodyWithCode)
    /\ CodeIn(BodyWithCode).kind = "code"

\* C27: the validity of the cache is decided by the token's exp claim alone
\* when the token carries a parseable one, the time since acquisition being
\* ignored; the fallback TTL since acquisition decides if and only if no
\* exp claim is parseable, and with a TTL of 0 a credential without exp
\* claim is never valid.
C27_ExpClaimPreferred ==
    [][\A c \in Callers :
         (NonForceDecision(c) /\ inFlightAuthPromise = NoPromise
                              /\ cachedAuth # NullAuth)
         => ((pc'[c] = "done" /\ outcome'[c] = Resolved(cachedAuth))
               <=> IF cachedAuth.accessToken.kind = "jwt"
                   THEN now' < cachedAuth.accessToken.exp * 1000 - skewMs
                   ELSE ttlMs > 0 /\ now' - cachedAtMs < ttlMs)]_vars

C29_BundleHeaders ==
    \A i \in 1 .. Len(built) :
        LET r == built[i] IN
        /\ r.headers.Cookie = r.cookieHeader
        /\ r.headers.UserAgent # NullMs /\ r.headers.UserAgent # 0
        /\ r.headers.Referer = BayanReferer
        /\ r.headers.Origin = BayanOrigin
        /\ r.headers.Authorization # NoHeader <=> r.accessToken # NullMs
        /\ r.accessToken # NullMs => r.headers.Authorization = <<"Bearer ", r.accessToken>>

\* storage holds no token and the last request carried an empty bearer
\* token: the result has no token and no Authorization header
C29_Witness ==
    /\ session.localStorage = 0
    /\ session.sessionStorage = NullMs
    /\ session.lastBearerToken = 0
    /\ Len(built) = 1
    /\ built[1].accessToken = NullMs
    /\ built[1].headers.Authorization = NoHeader

\* the handler of request c has run after getAuth() failed
FailureHandled(c) == http[c].handled /\ pc[c] = "done" /\ outcome[c].kind = "err"

\* the response carries the message of error e and its code, and for the
\* server-error page the code BAYAN_SERVER_OOPS and a screenshot
CarriesError(r, e) ==
    /\ r.status = 500
    /\ r.error = e.code
    /\ r.code = (IF e.code \in AttemptErrCodes THEN e.code ELSE "null")
    /\ e.code = "BAYAN_SERVER_OOPS" =>
           r.code = "BAYAN_SERVER_OOPS" /\ r.debugScreenshot # "null"

UpstreamAnswered == upstream.authOk /\ upstream.fault \notin {"fetchTimeout", "fetchError"}

C31_StatusPassedThrough ==
    (pxRes # <<>> /\ UpstreamAnswered) => pxRes[1].status = upstream.status

\* C32: matchSender accepts a sender iff, after trimming and lower-casing,
\* addr equals wanted, or addr contains wanted, or addr ends with '@' plus
\* wanted's domain (the non-empty text after wanted's at sign); it rejects
\* whenever addr or wanted is empty.
NormAddr == toLowerCase(trim(addr))

NormWanted == toLowerCase(trim(wanted))

\* the text after the at sign of the wanted address
WantedDomain ==
    IF Ats(NormWanted) = {} THEN <<>>
    ELSE SubSeq(NormWanted, (CHOOSE i \in Ats(NormWanted) : TRUE) + 1, Len(NormWanted))

SameDomain ==
    /\ WantedDomain # <<>>
    /\ Len(NormAddr) > Len(WantedDomain)
    /\ NormAddr[Len(NormAddr) - Len(WantedDomain)] = "@"
    /\ \A i \in 1 .. Len(WantedDomain) :
          NormAddr[Len(NormAddr) - Len(WantedDomain) + i] = WantedDomain[i]

ContainsWanted ==
    \E i \in 1 .. Len(NormAddr) : \E j \in i .. Len(NormAddr) :
        SubSeq(NormAddr, i, j) = NormWanted

C32_MatchPolicy ==
    accepted # <<>> =>
        (accepted[1] <=>
            /\ NormAddr # <<>>
            /\ NormWanted # <<>>
            /\ (NormAddr = NormWanted \/ ContainsWanted \/ SameDomain))

\* a sender of the wanted domain that is neither the wanted address nor
\* contains it has been accepted
C32_Witness ==
    /\ accepted = <<TRUE>>
    /\ SameDomain
    /\ ~ContainsWanted
    /\ NormAddr # addr

\* the lengths the search of src/unnamed/part_001 runs with
SafeMin == ClampLen(IF xOpts.given = "object" THEN xOpts.minLen ELSE Undef, 4, 1)

SafeMax == ClampLen(IF xOpts.given = "object" THEN xOpts.maxLen ELSE Undef, 8, SafeMin)

\* C33: every code returned by extractOtp consists only of ASCII digits, has
\* a length in [minLen, maxLen], and is a whole digit run of the normalised
\* text, never a proper part of a longer digit run.
C33_WholeAsciiRun ==
    \A i \in 1 .. Len(xOuts) :
        xOuts[i].safe.kind = "code" =>
            /\ \A j \in xOuts[i].safe.pos .. (xOuts[i].safe.pos + xOuts[i].safe.len - 1) :
                  ReplaceDigits(xText.str)[j] = "d"
            /\ xOuts[i].safe.len >= SafeMin
            /\ xOuts[i].safe.len <= SafeMax
            /\ IsDigitRun(ReplaceDigits(xText.str), xOuts[i].safe.pos, xOuts[i].safe.len)

\* no caller is inside getAuth awaiting an acquisition
NobodyAwaits == \A c \in Callers : pc[c] \notin {"await", "awaitOwn"}

\* C34: the in-flight marker is set if and only if an acquisition is
\* running: it is never null while a login sequence is still executing, and
\* never non-null once every acquisition has settled and every call has
\* returned.
C34_MarkerIffRunning ==
    /\ \A p \in Callers : InLoginSequence(p) => inFlightAuthPromise # NoPromise
    /\ ((\A p \in Callers : ~Running(p)) /\ NobodyAwaits) => inFlightAuthPromise = NoPromise

\* the first caller forced a refresh while the cache held a credential,
\* which invalidated that credential
ForcedOut(i) == force[1] /\ pc[1] # "idle" /\ seen[1] = i /\ i # NullAuth.id

\* C35: once a credential has been invalidated (here by getAuth({
\* forceRefresh: true })), no later getAuth() call returns that credential
\* from the cache, also when the acquisition that followed failed and also
\* after a restart of the process.
C35_InvalidatedNeverServed ==
    \A c \in Callers :
        (pc[c] = "done" /\ ServedFromCache(c)) => ~ForcedOut(outcome[c].bundle.id)

\* C36: once a successful acquisition has written a credential to the
\* in-memory cache, that credential is replaced only by a credential
\* acquired later or by an explicit invalidation, never by an older
\* credential such as the one the lazy load reads from the cache file.
C36_FreshnessMonotonic ==
    [][(cachedAuth.id \in Callers /\ cachedAuth' # cachedAuth) =>
          \/ cachedAuth' = NullAuth /\ cachedAtMs' = 0
          \/ /\ \E p \in Callers : LoginSucceeds(p) /\ cachedAuth'.id = p
             /\ cachedAtMs' >= cachedAtMs]_vars

\* caller c started an acquisition without forceRefresh and it failed
FailedUnforced(c) ==
    pc[c] = "done" /\ waits[c] = c /\ ~force[c] /\ outcome[c].kind = "err"

StatusesSent(c) == [i \in 1 .. Len(http[c].sent) |-> http[c].sent[i].status]

\* C38: every /auth request receives exactly one HTTP response, 200 with the
\* bundle, 500 with the error or 504 on timeout, for every ordering of the
\* timer firing and getAuth() settling: never two responses, and never none
\* once the timer has fired or getAuth() has settled.
C38_ExactlyOneResponse ==
    /\ [](\A c \in Callers :
            /\ Len(http[c].sent) <= 1
            /\ (http[c].timedOut \/ http[c].handled) => Len(http[c].sent) = 1
            /\ (http[c].timedOut /\ Len(http[c].sent) = 1) => StatusesSent(c) = <<504>>
            /\ (~http[c].timedOut /\ Len(http[c].sent) = 1) =>
                   StatusesSent(c) = IF outcome[c].kind = "ok" THEN <<200>> ELSE <<500>>)
    /\ [][\A c \in Callers : http[c].sent # <<>> => http'[c].sent = http[c].sent]_vars
    /\ \A c \in Callers : (pc[c] # "idle") ~> (Len(http[c].sent) = 1)

\* one request was answered 504 and its handler resumed afterwards without
\* answering again; the other was answered 200
C38_Witness ==
    \E c, d \in Callers :
        /\ http[c].timedOut /\ http[c].handled /\ StatusesSent(c) = <<504>>
        /\ outcome[c].kind = "ok"
        /\ ~http[d].timedOut /\ http[d].handled /\ StatusesSent(d) = <<200>>

====
